---- MODULE Spec2Model ----
(***************************************************************************)
(* Model of the marks-grader grading pipeline: the response normalizer of  *)
(* grading_service.py (GradingService), the batch loop of app.py and the   *)
(* queries of analytics_service.py (AnalyticsService).                     *)
(*                                                                         *)
(* Text is a sequence of symbols.  A symbol is one character ("{", "\"",   *)
(* a digit, a blank, ...) or one maximal run of letters ("total_score",    *)
(* "score", "x", "null").  The numbers of the normalizer are exact         *)
(* rationals n/d; the floats of the analytics are rationals rounded to     *)
(* MantBits significant bits after every operation.                        *)
(***************************************************************************)
EXTENDS Integers, Sequences, FiniteSets, TLC

\* ------------------------------------------------------------------------
\* Bounds of the model
\* ------------------------------------------------------------------------
MaxMarks == 2
MaxLen == 2
MaxFiles == 2

\* ------------------------------------------------------------------------
\* Symbols
\* ------------------------------------------------------------------------
LB == "{"
RB == "}"
LK == "["
RK == "]"
QT == "\""
WS == " "
CO == ":"
CM == ","
SL == "/"
MI == "-"

Digits == {"0", "1", "2", "3", "4", "5", "6", "7", "8", "9"}

DigitVal(c) ==
    CASE c = "0" -> 0 [] c = "1" -> 1 [] c = "2" -> 2 [] c = "3" -> 3
      [] c = "4" -> 4 [] c = "5" -> 5 [] c = "6" -> 6 [] c = "7" -> 7
      [] c = "8" -> 8 [] c = "9" -> 9

\* letter runs in which the regex alternatives score|marks? match a suffix
ScoreWords == {"score", "Score", "marks", "mark", "total_score"}

\* ------------------------------------------------------------------------
\* Python numbers as exact rationals
\* ------------------------------------------------------------------------
RECURSIVE Gcd(_, _)
Gcd(a, b) == IF b = 0 THEN a ELSE Gcd(b, a % b)

Abs(x) == IF x < 0 THEN -x ELSE x

\* float('nan'): the number with denominator 0; it is not below, above or
\* equal to any number, and arithmetic on it gives it back
PyNaN == [t |-> "num", n |-> 0, d |-> 0]

\* the number n/d (d > 0) in lowest terms; nan when d = 0
Num(n, d) ==
    IF d = 0 THEN PyNaN
    ELSE [t |-> "num", n |-> n \div Gcd(Abs(n), d), d |-> d \div Gcd(Abs(n), d)]

NumLt(x, y) == x.n * y.d < y.n * x.d
NumMul(x, y) == Num(x.n * y.n, x.d * y.d)
\* x / y for y # 0
NumDiv(x, y) ==
    IF y.d = 0 THEN PyNaN
    ELSE IF y.n > 0 THEN Num(x.n * y.d, x.d * y.n) ELSE Num(-(x.n * y.d), x.d * (-y.n))

\* ------------------------------------------------------------------------
\* JSON values (the objects json.loads builds)
\* ------------------------------------------------------------------------
JNull == [t |-> "null"]
JStr(s) == [t |-> "str", s |-> s]
JArr(a) == [t |-> "arr", a |-> a]
\* a dict: its (key, value) pairs in source order, a later pair overriding
JObj(o) == [t |-> "obj", o |-> o]

\* ------------------------------------------------------------------------
\* str methods
\* ------------------------------------------------------------------------
RECURSIVE LStrip(_)
LStrip(s) == IF s # <<>> /\ Head(s) = WS THEN LStrip(Tail(s)) ELSE s

RECURSIVE RStrip(_)
RStrip(s) ==
    IF s # <<>> /\ s[Len(s)] = WS THEN RStrip(SubSeq(s, 1, Len(s) - 1)) ELSE s

\* str.strip()
Strip(s) == RStrip(LStrip(s))

\* str.find(c): the first index (from 1) of c, 0 when absent (Python: -1)
Find(s, c) ==
    IF \E i \in 1..Len(s) : s[i] = c
    THEN CHOOSE i \in 1..Len(s) : s[i] = c /\ \A j \in 1..(i - 1) : s[j] # c
    ELSE 0

\* str.rfind(c): the last index (from 1) of c, 0 when absent (Python: -1)
RFind(s, c) ==
    IF \E i \in 1..Len(s) : s[i] = c
    THEN CHOOSE i \in 1..Len(s) : s[i] = c /\ \A j \in (i + 1)..Len(s) : s[j] # c
    ELSE 0

\* str.count(c)
Count(s, c) == Cardinality({i \in 1..Len(s) : s[i] = c})

\* the first index >= i of s that is not whitespace (Len(s)+1 when none)
RECURSIVE SkipWs(_, _)
SkipWs(s, i) == IF i <= Len(s) /\ s[i] = WS THEN SkipWs(s, i + 1) ELSE i

\* the first index >= i of s that is not a digit
RECURSIVE SkipDigits(_, _)
SkipDigits(s, i) == IF i <= Len(s) /\ s[i] \in Digits THEN SkipDigits(s, i + 1) ELSE i

\* int() of the digit run s[i..j-1]
RECURSIVE IntOf(_, _, _)
IntOf(s, i, j) == IF j <= i THEN 0 ELSE IntOf(s, i, j - 1) * 10 + DigitVal(s[j - 1])

At(s, i) == IF i >= 1 /\ i <= Len(s) THEN s[i] ELSE ""

\* ------------------------------------------------------------------------
\* json.loads: a strict parser; a result is [ok, val, pos], pos the index
\* after the value
\* ------------------------------------------------------------------------
PFail == [ok |-> FALSE, val |-> JNull, pos |-> 0]
POk(v, p) == [ok |-> TRUE, val |-> v, pos |-> p]

\* scanstring from the opening quote at i: the text up to the next quote
ParseString(s, i) ==
    LET rest == SubSeq(s, i + 1, Len(s))
        j == Find(rest, QT)
    IN IF j = 0 THEN PFail ELSE POk(JStr(SubSeq(rest, 1, j - 1)), i + j + 1)

\* NUMBER_RE at i: -?(0|[1-9]\d*)
ParseNumber(s, i) ==
    LET neg == At(s, i) = MI
        b == IF neg THEN i + 1 ELSE i
        e == IF At(s, b) = "0" THEN b + 1 ELSE SkipDigits(s, b)
        v == IntOf(s, b, e)
    IN IF e = b THEN PFail ELSE POk(Num(IF neg THEN -v ELSE v, 1), e)

RECURSIVE ParseValue(_, _), ParseMembers(_, _, _), ParseElements(_, _, _)
RECURSIVE MemberValue(_, _, _), MemberEnd(_, _, _, _), MemberNext(_, _, _)
RECURSIVE ElementEnd(_, _, _), ElementNext(_, _, _)

\* scan_once at index i
ParseValue(s, i) ==
    LET c == At(s, i)
    IN CASE c = QT -> ParseString(s, i)
         [] c = LB ->
              LET j == SkipWs(s, i + 1)
              IN IF At(s, j) = RB THEN POk(JObj(<<>>), j + 1)
                 ELSE IF At(s, j) = QT THEN ParseMembers(s, j, <<>>)
                 ELSE PFail
         [] c = LK ->
              LET j == SkipWs(s, i + 1)
              IN IF At(s, j) = RK THEN POk(JArr(<<>>), j + 1)
                 ELSE ParseElements(s, j, <<>>)
         [] c = "null" -> POk(JNull, i + 1)
         [] c = "NaN" -> POk(PyNaN, i + 1)
         [] c = MI \/ c \in Digits -> ParseNumber(s, i)
         [] OTHER -> PFail

\* JSONObject's loop, at the opening quote of a key: the key
ParseMembers(s, i, acc) == MemberValue(s, acc, ParseString(s, i))

\* JSONObject's loop after the key k: the ":" and the value
MemberValue(s, acc, k) ==
    IF ~k.ok \/ At(s, SkipWs(s, k.pos)) # CO THEN PFail
    ELSE MemberEnd(s, acc, k, ParseValue(s, SkipWs(s, SkipWs(s, k.pos) + 1)))

\* JSONObject's loop after the value v of key k
MemberEnd(s, acc, k, v) ==
    IF ~v.ok THEN PFail
    ELSE MemberNext(s, Append(acc, [k |-> k.val.s, v |-> v.val]), SkipWs(s, v.pos))

\* JSONObject's loop at the delimiter e: "}" ends, "," and a quote go on
MemberNext(s, acc, e) ==
    IF At(s, e) = RB THEN POk(JObj(acc), e + 1)
    ELSE IF At(s, e) = CM /\ At(s, SkipWs(s, e + 1)) = QT
    THEN ParseMembers(s, SkipWs(s, e + 1), acc)
    ELSE PFail

\* JSONArray's loop, at the first symbol of an element
ParseElements(s, i, acc) == ElementEnd(s, acc, ParseValue(s, i))

\* JSONArray's loop after the element v
ElementEnd(s, acc, v) ==
    IF ~v.ok THEN PFail ELSE ElementNext(s, Append(acc, v.val), SkipWs(s, v.pos))

\* JSONArray's loop at the delimiter e: "]" ends, "," goes on
ElementNext(s, acc, e) ==
    IF At(s, e) = RK THEN POk(JArr(acc), e + 1)
    ELSE IF At(s, e) = CM THEN ParseElements(s, SkipWs(s, e + 1), acc)
    ELSE PFail

\* decode: the value r must be followed by whitespace only
WholeText(s, r) == IF r.ok /\ SkipWs(s, r.pos) = Len(s) + 1 THEN r ELSE PFail

\* json.loads(s): the value, or JSONDecodeError (ok = FALSE)
JsonLoads(s) == WholeText(s, ParseValue(s, SkipWs(s, 1)))

\* ------------------------------------------------------------------------
\* dict and object helpers
\* ------------------------------------------------------------------------
HasKey(o, key) == \E i \in 1..Len(o) : o[i].k = key

\* dict.get(key, default) on the pairs of a parsed object
Get(o, key, default) ==
    IF HasKey(o, key)
    THEN o[CHOOSE i \in 1..Len(o) : o[i].k = key /\ \A j \in (i + 1)..Len(o) : o[j].k # key].v
    ELSE default

\* bool(v)
Truthy(v) ==
    CASE v.t = "null" -> FALSE
      [] v.t = "num" -> v.n # 0 \/ v.d = 0
      [] v.t = "str" -> v.s # <<>>
      [] v.t = "arr" -> v.a # <<>>
      [] v.t = "obj" -> v.o # <<>>

\* str(n) of an int n >= 0: its decimal digits
DigitSym(k) ==
    CASE k = 0 -> "0" [] k = 1 -> "1" [] k = 2 -> "2" [] k = 3 -> "3" [] k = 4 -> "4"
      [] k = 5 -> "5" [] k = 6 -> "6" [] k = 7 -> "7" [] k = 8 -> "8" [] k = 9 -> "9"

RECURSIVE NatStr(_)
NatStr(n) == IF n < 10 THEN <<DigitSym(n)>> ELSE Append(NatStr(n \div 10), DigitSym(n % 10))

IntStr(n) == IF n < 0 THEN <<MI>> \o NatStr(-n) ELSE NatStr(n)

RECURSIVE JoinSeqs(_, _)
\* sep.join(parts)
JoinSeqs(parts, sep) ==
    IF parts = <<>> THEN <<>>
    ELSE IF Len(parts) = 1 THEN parts[1]
    ELSE parts[1] \o sep \o JoinSeqs(Tail(parts), sep)

RECURSIVE PyRepr(_)
\* repr(v) of a parsed value
PyRepr(v) ==
    CASE v.t = "null" -> <<"None">>
      [] v.t = "num" -> IF v.d = 0 THEN <<"nan">> ELSE IntStr(v.n)
      [] v.t = "str" -> <<"'">> \o v.s \o <<"'">>
      [] v.t = "arr" ->
           <<LK>> \o JoinSeqs([i \in 1..Len(v.a) |-> PyRepr(v.a[i])], <<CM, WS>>) \o <<RK>>
      [] v.t = "obj" ->
           LET live == SelectSeq([i \in 1..Len(v.o) |-> [i |-> i, p |-> v.o[i]]],
                                 LAMBDA e : \A j \in 1..(e.i - 1) : v.o[j].k # e.p.k)
           IN <<LB>> \o JoinSeqs([i \in 1..Len(live) |->
                                    <<"'">> \o live[i].p.k \o <<"'">> \o <<CO, WS>>
                                       \o PyRepr(Get(v.o, live[i].p.k, JNull))],
                                 <<CM, WS>>) \o <<RB>>

\* str(v), as an f-string formats it
PyStr(v) == IF v.t = "str" THEN v.s ELSE PyRepr(v)

\* the items a for loop over v visits (v a str, list or dict)
IterItems(v) ==
    CASE v.t = "str" -> [i \in 1..Len(v.s) |-> JStr(<<v.s[i]>>)]
      [] v.t = "arr" -> v.a
      [] v.t = "obj" ->
           LET live == SelectSeq([i \in 1..Len(v.o) |-> [i |-> i, p |-> v.o[i]]],
                                 LAMBDA e : \A j \in 1..(e.i - 1) : v.o[j].k # e.p.k)
           IN [i \in 1..Len(live) |-> JStr(live[i].p.k)]
      [] OTHER -> <<>>

\* ------------------------------------------------------------------------
\* Outcomes of a call: a returned value or a raised exception
\* ------------------------------------------------------------------------
Ret(v) == [raised |-> FALSE, exc |-> "", msg |-> <<>>, val |-> v]
Raise(e, m) == [raised |-> TRUE, exc |-> e, msg |-> m, val |-> JNull]

\* Optional[str]
PyNone == [some |-> FALSE, text |-> <<>>]
Some(txt) == [some |-> TRUE, text |-> txt]

\* ------------------------------------------------------------------------
\* GradingService
\* ------------------------------------------------------------------------
\* os.environ["GEMINI_API_KEY"] is set when the module is imported
api_key == <<"AIza">>

\* _repair_json: the stack after scanning s[i..]
RECURSIVE ScanStack(_, _, _)
ScanStack(s, i, stack) ==
    IF i > Len(s) THEN stack
    ELSE LET char == s[i]
             top == IF stack = <<>> THEN "" ELSE stack[Len(stack)]
         IN IF char \in {LB, LK} THEN ScanStack(s, i + 1, Append(stack, char))
            ELSE IF char \in {RB, RK} /\ stack # <<>>
                    /\ ((char = RB /\ top = LB) \/ (char = RK /\ top = LK))
                 THEN ScanStack(s, i + 1, SubSeq(stack, 1, Len(stack) - 1))
            ELSE ScanStack(s, i + 1, stack)

\* _repair_json: the closers of the openers left on the stack, last first
RECURSIVE Closers(_)
Closers(stack) ==
    IF stack = <<>> THEN <<>>
    ELSE <<IF stack[Len(stack)] = LB THEN RB ELSE RK>>
            \o Closers(SubSeq(stack, 1, Len(stack) - 1))

\* mutant: the openers are closed in the order they were opened
_repair_json_first_opened_first(json_str) ==
    LET s1 == Strip(json_str)
        s2 == IF Count(s1, QT) % 2 # 0 THEN Append(s1, QT) ELSE s1
    IN s2 \o Closers([i \in 1..Len(ScanStack(s2, 1, <<>>)) |->
                         ScanStack(s2, 1, <<>>)[Len(ScanStack(s2, 1, <<>>)) + 1 - i]])

\* mutant: the text is not stripped
_repair_json_unstripped(json_str) ==
    LET s2 == IF Count(json_str, QT) % 2 # 0 THEN Append(json_str, QT) ELSE json_str
    IN s2 \o Closers(ScanStack(s2, 1, <<>>))

_repair_json(json_str) ==
    LET s1 == Strip(json_str)
        s2 == IF Count(s1, QT) % 2 # 0 THEN Append(s1, QT) ELSE s1
    IN s2 \o Closers(ScanStack(s2, 1, <<>>))

_create_error_result(error_message) ==
    [total_score |-> Num(0, 1),
     percentage |-> Num(0, 1),
     feedback |-> <<"Error during grading: ">> \o error_message,
     criteria_scores |-> JObj(<<>>),
     questions |-> JArr(<<>>),
     strengths |-> JArr(<<>>),
     areas_for_improvement |-> JArr(<<>>),
     grade_justification |-> JStr(<<"Grading failed due to technical error.">>)]

\* whether "\n\n".join / the for loops of _combine_feedback raise TypeError
CombineRaises(o) ==
    LET ov == Get(o, <<"overall_feedback">>, JNull)
        st == Get(o, <<"strengths">>, JNull)
        ar == Get(o, <<"areas_for_improvement">>, JNull)
    IN \/ Truthy(ov) /\ ov.t # "str"
       \/ Truthy(st) /\ st.t = "num"
       \/ Truthy(ar) /\ ar.t = "num"

\* the literal "U+2022 " that starts a bullet line
BULLET == "(U+2022) "

Bullets(v) == JoinSeqs([i \in 1..Len(IterItems(v)) |-> <<BULLET>> \o PyStr(IterItems(v)[i])], <<"\n">>)

\* mutant: the parts are joined by a single newline
_combine_feedback_single_newline(o) ==
    LET ov == Get(o, <<"overall_feedback">>, JNull)
        st == Get(o, <<"strengths">>, JNull)
        ar == Get(o, <<"areas_for_improvement">>, JNull)
        gj == Get(o, <<"grade_justification">>, JNull)
        p1 == IF Truthy(ov) THEN <<ov.s>> ELSE <<>>
        p2 == IF Truthy(st) THEN <<<<"**Strengths:**\n">> \o Bullets(st)>> ELSE <<>>
        p3 == IF Truthy(ar) THEN <<<<"**Areas for Improvement:**\n">> \o Bullets(ar)>> ELSE <<>>
        p4 == IF Truthy(gj) THEN <<<<"**Grade Justification:**\n">> \o PyStr(gj)>> ELSE <<>>
    IN IF CombineRaises(o) THEN Raise("TypeError", <<"TypeError">>)
       ELSE Ret(JoinSeqs(p1 \o p2 \o p3 \o p4, <<"\n">>))

_combine_feedback(o) ==
    LET ov == Get(o, <<"overall_feedback">>, JNull)
        st == Get(o, <<"strengths">>, JNull)
        ar == Get(o, <<"areas_for_improvement">>, JNull)
        gj == Get(o, <<"grade_justification">>, JNull)
        p1 == IF Truthy(ov) THEN <<ov.s>> ELSE <<>>
        p2 == IF Truthy(st) THEN <<<<"**Strengths:**\n">> \o Bullets(st)>> ELSE <<>>
        p3 == IF Truthy(ar) THEN <<<<"**Areas for Improvement:**\n">> \o Bullets(ar)>> ELSE <<>>
        p4 == IF Truthy(gj) THEN <<<<"**Grade Justification:**\n">> \o PyStr(gj)>> ELSE <<>>
    IN IF CombineRaises(o) THEN Raise("TypeError", <<"TypeError">>)
       ELSE Ret(JoinSeqs(p1 \o p2 \o p3 \o p4, <<"\n\n">>))

\* the first index >= i of s that is neither ":" nor whitespace: [:\s]*
RECURSIVE SkipSep(_, _)
SkipSep(s, i) == IF i <= Len(s) /\ s[i] \in {CO, WS} THEN SkipSep(s, i + 1) ELSE i

\* whether (?:score|marks?)[:\s]*(\d+) matches with its keyword ending at i
MatchAt(s, i) == s[i] \in ScoreWords /\ At(s, SkipSep(s, i + 1)) \in Digits

\* re.search(r'(?:score|marks?)[:\s]*(\d+)(?:/(\d+))?', s, re.IGNORECASE):
\* the leftmost match; has2 tells whether group 2 took part
ScoreSearch(s) ==
    IF \E i \in 1..Len(s) : MatchAt(s, i)
    THEN LET i == CHOOSE i \in 1..Len(s) : MatchAt(s, i) /\ \A j \in 1..(i - 1) : ~MatchAt(s, j)
             b == SkipSep(s, i + 1)
             e == SkipDigits(s, b)
             has2 == At(s, e) = SL /\ At(s, e + 1) \in Digits
         IN [found |-> TRUE, group1 |-> IntOf(s, b, e), has2 |-> has2,
             group2 |-> IF has2 THEN IntOf(s, e + 1, SkipDigits(s, e + 1)) ELSE 0]
    ELSE [found |-> FALSE, group1 |-> 0, has2 |-> FALSE, group2 |-> 0]

\* min(a, b) of two numbers
NumMin(a, b) == IF NumLt(b, a) THEN b ELSE a

\* the score of the match: rescaled to total_marks, then min
MatchedScore(score_match, total_marks) ==
    LET max_score == IF score_match.has2 THEN score_match.group2 ELSE total_marks
    IN IF max_score # total_marks
       THEN NumMin(NumMul(NumDiv(Num(score_match.group1, 1), Num(max_score, 1)),
                          Num(total_marks, 1)),
                   Num(total_marks, 1))
       ELSE NumMin(Num(score_match.group1, 1), Num(total_marks, 1))

\* the dict _fallback_text_parsing returns for a score
FallbackResult(response, total_marks, score) ==
    [total_score |-> score,
     percentage |-> IF total_marks > 0
                    THEN NumMul(NumDiv(score, Num(total_marks, 1)), Num(100, 1))
                    ELSE Num(0, 1),
     feedback |-> response,
     criteria_scores |-> JObj(<<>>),
     questions |-> JArr(<<>>),
     strengths |-> JArr(<<>>),
     areas_for_improvement |-> JArr(<<>>),
     grade_justification |-> JStr(<<"Grading performed using fallback text analysis.">>)]

\* the try block of _fallback_text_parsing after re.search
FallbackFrom(response, total_marks, score_match) ==
    IF ~score_match.found THEN Ret(FallbackResult(response, total_marks, Num(0, 1)))
    ELSE IF score_match.has2 /\ score_match.group2 # total_marks /\ score_match.group2 = 0
    THEN Raise("ZeroDivisionError", <<"division by zero">>)
    ELSE Ret(FallbackResult(response, total_marks, MatchedScore(score_match, total_marks)))

\* the try block of _fallback_text_parsing
FallbackBody(response, total_marks) ==
    FallbackFrom(response, total_marks, ScoreSearch(response))

\* the except clause of _fallback_text_parsing
FallbackExcept(body) ==
    IF body.raised
    THEN Ret(_create_error_result(<<"Failed to parse grading response">>))
    ELSE body

\* mutant: the try block without its except clause
_fallback_text_parsing_unguarded(response, total_marks) ==
    FallbackBody(response, total_marks)

_fallback_text_parsing(response, total_marks) ==
    FallbackExcept(FallbackBody(response, total_marks))

\* raw_text[json_start:json_end + 1], or raw_text[json_start:] when the last
\* "}" is missing or lies before the first "{"
JsonContent(raw_text) ==
    LET json_start == Find(raw_text, LB)
        json_end == RFind(raw_text, RB)
    IN IF json_end # 0 /\ json_end > json_start
       THEN SubSeq(raw_text, json_start, json_end)
       ELSE SubSeq(raw_text, json_start, Len(raw_text))

\* the except clause of the inner try: repair, then json.loads again
RepairOr(first, json_content) ==
    IF first.ok THEN first ELSE JsonLoads(_repair_json(json_content))

\* the inner try of _parse_grading_response: json.loads, then json.loads of
\* the repaired text
LoadOrRepair(json_content) == RepairOr(JsonLoads(json_content), json_content)

\* the normalized dict with its total_score and percentage
NormalizedResult(o, fb, total_score, percentage) ==
    [total_score |-> total_score,
     percentage |-> percentage,
     feedback |-> fb,
     criteria_scores |-> Get(o, <<"criteria_scores">>, JObj(<<>>)),
     criteria_explanations |-> Get(o, <<"criteria_explanations">>, JObj(<<>>)),
     questions |-> Get(o, <<"questions">>, JArr(<<>>)),
     strengths |-> Get(o, <<"strengths">>, JArr(<<>>)),
     areas_for_improvement |-> Get(o, <<"areas_for_improvement">>, JArr(<<>>)),
     grade_justification |-> Get(o, <<"grade_justification">>, JStr(<<>>))]

\* mutant: the percentage is never recalculated
NormalizeWith_keep_percentage(o, total_marks, reported, fb) ==
    IF reported.t # "num" THEN Raise("TypeError", <<"TypeError">>)
    ELSE IF fb.raised THEN fb
    ELSE Ret(NormalizedResult(o, fb.val, NumMin(reported, Num(total_marks, 1)),
                              Get(o, <<"percentage">>, Num(0, 1))))

\* mutant: the reported score is taken without min(..., total_marks)
NormalizeWith_no_min(o, total_marks, reported, fb) ==
    IF reported.t # "num" THEN Raise("TypeError", <<"TypeError">>)
    ELSE IF fb.raised THEN fb
    ELSE Ret(NormalizedResult(o, fb.val, reported,
                              IF reported.n > 0
                              THEN NumMul(NumDiv(reported, Num(total_marks, 1)), Num(100, 1))
                              ELSE Get(o, <<"percentage">>, Num(0, 1))))

\* the dict built from the parsed object o, its reported total_score and
\* its combined feedback fb; TypeError when min or the feedback raise
NormalizeWith(o, total_marks, reported, fb) ==
    IF reported.t # "num" THEN Raise("TypeError", <<"TypeError">>)
    ELSE IF fb.raised THEN fb
    ELSE Ret(NormalizedResult(o, fb.val, NumMin(reported, Num(total_marks, 1)),
                              IF NumMin(reported, Num(total_marks, 1)).n > 0
                              THEN NumMul(NumDiv(NumMin(reported, Num(total_marks, 1)),
                                                 Num(total_marks, 1)), Num(100, 1))
                              ELSE Get(o, <<"percentage">>, Num(0, 1))))

\* "Validate and normalize the response"
Normalize(o, total_marks) ==
    NormalizeWith(o, total_marks, Get(o, <<"total_score">>, Num(0, 1)), _combine_feedback(o))

\* the outer try block after the text was loaded
ParseLoaded(raw_text, total_marks, loaded) ==
    IF Find(raw_text, LB) = 0
    THEN Raise("ValueError", <<"Gemini did not return JSON:\n">> \o raw_text)
    ELSE IF ~loaded.ok THEN Raise("JSONDecodeError", <<"JSONDecodeError">>)
    ELSE Normalize(loaded.val.o, total_marks)

\* the outer try block of _parse_grading_response
ParseBody(response, total_marks) ==
    ParseLoaded(Strip(response), total_marks, LoadOrRepair(JsonContent(Strip(response))))

\* mutant: the fallback is handed the stripped text, not the response
ParseExcept_stripped(body, response, total_marks) ==
    IF ~body.raised THEN body
    ELSE IF body.exc = "JSONDecodeError"
    THEN _fallback_text_parsing(Strip(response), total_marks)
    ELSE Ret(_create_error_result(body.msg))

\* the except clauses of _parse_grading_response
ParseExcept(body, response, total_marks) ==
    IF ~body.raised THEN body
    ELSE IF body.exc = "JSONDecodeError" THEN _fallback_text_parsing(response, total_marks)
    ELSE Ret(_create_error_result(body.msg))

_parse_grading_response(response, total_marks, custom_criteria) ==
    ParseExcept(ParseBody(response, total_marks), response, total_marks)

\* mutant: the body of a response is returned whatever its status
_call_gemini_api_any_status(api) ==
    IF api.kind = "http" /\ (api.status # 200 \/ api.has_text) THEN Some(api.text) ELSE PyNone

\* the text the call returns, or None; api is what the network did
_call_gemini_api(api) ==
    IF api.kind = "http" /\ api.status = 200 /\ api.has_text THEN Some(api.text) ELSE PyNone

\* "if response:" after the api key check
HasResponse(response) == api_key # <<>> /\ response.some /\ response.text # <<>>

\* the call of _parse_grading_response that grade_assignment makes, if any
ParseCallOn(response, total_marks, custom_criteria) ==
    IF HasResponse(response)
    THEN [called |-> TRUE,
          out |-> _parse_grading_response(response.text, total_marks, custom_criteria)]
    ELSE [called |-> FALSE, out |-> Ret(JNull)]

ParseCall(api, total_marks, custom_criteria) ==
    ParseCallOn(_call_gemini_api(api), total_marks, custom_criteria)

\* what grade_assignment returns, given the call it made (or not)
GradeResult(call) ==
    IF api_key = <<>> THEN Ret(_create_error_result(<<"Gemini API key not configured">>))
    ELSE IF call.called
    THEN IF call.out.raised THEN Ret(_create_error_result(call.out.msg)) ELSE call.out
    ELSE Ret(_create_error_result(<<"Failed to get response from Gemini AI">>))

grade_assignment(api, total_marks, custom_criteria) ==
    GradeResult(ParseCall(api, total_marks, custom_criteria))

\* mutant: the request is sent again when the first one gave no text
OutboundCalls_retry(api) ==
    IF api_key = <<>> THEN <<>>
    ELSE IF _call_gemini_api(api).some THEN <<api>> ELSE <<api, api>>

\* the requests grade_assignment sends to the AI service: none without an
\* api key, else the one requests.post of its one _call_gemini_api
OutboundCalls(api) == IF api_key = <<>> THEN <<>> ELSE <<api>>

\* ------------------------------------------------------------------------
\* Payloads of the AI service: the object the prompt asks for, damaged
\* (truncated, wrapped in prose or blanks) and free text
\* ------------------------------------------------------------------------
Quoted(w) == <<QT, w, QT>>
Member(key, valtext) == Quoted(key) \o <<CO, WS>> \o valtext
ObjText(members) == <<LB>> \o JoinSeqs(members, <<CM, WS>>) \o <<RB>>

Marks == (1..MaxMarks) \cup {10, 100}

ScoreVals == ((-1)..(MaxMarks + 1)) \cup {-5, 5, 10, 150}

\* texts of a total_score value: numbers, the NaN literal json.loads accepts,
\* and values of a wrong type
ScoreTexts ==
    {IntStr(n) : n \in ScoreVals} \cup {<<"NaN">>, <<"null">>, Quoted("5"), <<LK, "5", RK>>}

PercentTexts == {<<"0">>, <<"5", "0">>, Quoted("x")}

NestedObj == ObjText(<<Member("x", <<"1">>)>>)
QuestionArr == <<LK>> \o ObjText(<<Member("question_number", <<"1">>), Member("score", <<"1">>)>>) \o <<RK>>

\* values of the narrative fields: text, empty, lists, absent-like, wrong type
NarrativeTexts == {Quoted("x"), <<QT, QT>>, <<"null">>, <<"5">>, <<LK>> \o Quoted("x") \o <<CM, WS>> \o Quoted("y") \o <<RK>>}

\* well-formed objects in the shape the prompt requests
WellFormedTexts ==
    {ObjText(<<Member("total_score", st)>>) : st \in ScoreTexts}
    \cup {ObjText(<<Member("total_score", st), Member("percentage", pt)>>) :
            st \in ScoreTexts, pt \in PercentTexts}
    \cup {ObjText(<<Member("percentage", pt)>>) : pt \in PercentTexts}
    \cup {ObjText(<<Member("criteria_scores", NestedObj), Member("total_score", st)>>) :
            st \in ScoreTexts}
    \cup {ObjText(<<Member("strengths", <<LK>> \o Quoted("x") \o <<RK>>), Member("total_score", st)>>) :
            st \in ScoreTexts}
    \cup {ObjText(<<Member("total_score", st), Member("questions", QuestionArr)>>) :
            st \in ScoreTexts}
    \cup {ObjText(<<Member("total_score", <<"1">>), Member("overall_feedback", a),
                    Member("strengths", b), Member("grade_justification", c)>>) :
            a \in NarrativeTexts, b \in NarrativeTexts, c \in {Quoted("x"), <<"null">>}}

\* the objects whose truncations are explored
TruncationBases ==
    {ObjText(<<Member("total_score", <<"5">>), Member("percentage", <<"5", "0">>)>>),
     ObjText(<<Member("criteria_scores", NestedObj), Member("total_score", <<"5">>)>>),
     ObjText(<<Member("strengths", <<LK>> \o Quoted("x") \o <<RK>>), Member("total_score", <<"5">>)>>),
     ObjText(<<Member("total_score", <<"5">>), Member("questions", QuestionArr)>>),
     ObjText(<<Member("total_score", <<"5">>), Member("criteria_scores", NestedObj),
               Member("percentage", <<"5", "0">>)>>),
     ObjText(<<Member("total_score", <<"1", "5", "0">>), Member("overall_feedback", Quoted("x"))>>)}

TruncatedTexts == UNION {{SubSeq(t, 1, k) : k \in 0..Len(t)} : t \in TruncationBases}

\* every well-formed object with only its final closing brace missing
UnclosedTexts == {SubSeq(t, 1, Len(t) - 1) : t \in WellFormedTexts}

\* the three backticks of a markdown code fence
FENCE == "(fence)"

\* payloads wrapped in prose, a code fence or blanks
WrappedTexts ==
    {pre \o t \o post : t \in TruncationBases \cup {SubSeq(b, 1, Len(b) - 1) : b \in TruncationBases},
                        pre \in {<<WS>>, <<"x", WS>>, <<FENCE, "json", WS>>},
                        post \in {<<>>, <<WS>>, <<WS, FENCE>>, <<WS, "x", RB>>}}

\* free text with a score/marks pattern N or N/M
PatternTexts ==
    {pre \o <<w>> \o sep \o IntStr(n) \o den \o post :
        pre \in {<<>>, <<WS>>, <<LB>>, <<LB, WS, "x", WS>>},
        w \in {"Score", "marks", "total_score"},
        sep \in {<<>>, <<CO, WS>>},
        n \in {0, 1, 7, 150},
        den \in {<<>>, <<SL>>} \cup {<<SL>> \o IntStr(m) : m \in {0, 1, 10}},
        post \in {<<>>, <<WS>>}}

Alphabet == {LB, RB, LK, RK, QT, WS, CO, SL, "score", "x", "0", "5"}

\* every text of at most MaxLen symbols
ShortTexts == UNION {[1..n -> Alphabet] : n \in 0..MaxLen}

Responses == WellFormedTexts \cup TruncatedTexts \cup UnclosedTexts \cup WrappedTexts
                \cup PatternTexts \cup ShortTexts

\* what the network call can do: an HTTP response (with a status, and a
\* text part or none), a requests exception, any other exception
ApiOutcomes ==
    {[kind |-> "http", status |-> 200, has_text |-> TRUE, text |-> t] : t \in Responses}
    \cup {[kind |-> "http", status |-> st, has_text |-> ht, text |-> t] :
            st \in {200, 500}, ht \in BOOLEAN,
            t \in {<<>>, ObjText(<<Member("total_score", <<"1">>)>>), <<"Score", CO, WS, "1">>}}
    \cup {[kind |-> k, status |-> 0, has_text |-> FALSE, text |-> <<>>] :
            k \in {"RequestException", "Exception"}}

NoApi == [kind |-> "none", status |-> 0, has_text |-> FALSE, text |-> <<>>]

\* the sidebar's criteria: none, or one criterion with its marks
CriteriaSets == {<<>>, <<[k |-> <<"x">>, v |-> 1]>>}

\* ------------------------------------------------------------------------
\* Uploaded files and the batch's inputs
\* ------------------------------------------------------------------------
\* an uploaded file: what validate_file_type says of its name, and what the
\* text extraction does with it (a text, None, or an exception)
FileKinds ==
    {[file_type |-> "pdf", raises |-> FALSE, content |-> Some(<<"x", WS, "y">>)],
     [file_type |-> "png", raises |-> FALSE, content |-> Some(<<"x">>)],
     [file_type |-> "pdf", raises |-> FALSE, content |-> Some(<<WS>>)],
     [file_type |-> "", raises |-> FALSE, content |-> PyNone],
     [file_type |-> "png", raises |-> TRUE, content |-> PyNone]}

\* the uploads of one batch, named by their position
Uploads ==
    UNION {{[i \in 1..n |-> [name |-> i, file_type |-> f[i].file_type,
                             raises |-> f[i].raises, content |-> f[i].content]] :
              f \in [1..n -> FileKinds]} : n \in 1..MaxFiles}

\* what the network does during a batch
BatchApiOutcomes ==
    {[kind |-> "http", status |-> 200, has_text |-> TRUE, text |-> t] :
        t \in {ObjText(<<Member("total_score", <<"1">>), Member("percentage", <<"5", "0">>)>>),
               <<LB>> \o Member("total_score", <<"1">>),
               <<"Score", CO, WS, "1">>,
               <<LB, "x">>,
               <<"x">>,
               ObjText(<<Member("total_score", Quoted("5"))>>),
               ObjText(<<Member("total_score", <<"NaN">>)>>)}}
    \cup {[kind |-> "http", status |-> 500, has_text |-> FALSE,
           text |-> ObjText(<<Member("total_score", <<"1">>)>>)],
          [kind |-> "http", status |-> 200, has_text |-> FALSE, text |-> <<>>],
          [kind |-> "RequestException", status |-> 0, has_text |-> FALSE, text |-> <<>>]}

\* ------------------------------------------------------------------------
\* app.py: process_single_file and the loop of main
\* ------------------------------------------------------------------------
PreviewLen == 500

\* the text the OCR service or the file processor extracts, or its exception
ExtractText(uploaded_file) ==
    IF uploaded_file.raises THEN Raise("Exception", <<"extraction failed">>)
    ELSE Ret(uploaded_file.content)

\* not text_content or not text_content.strip()
NoContent(text_content) == ~text_content.some \/ Strip(text_content.text) = <<>>

\* whether process_single_file reaches its call of grade_assignment
Grades(uploaded_file) ==
    ~ExtractText(uploaded_file).raised /\ ~NoContent(ExtractText(uploaded_file).val)

\* the record of a file that failed: no text, or an exception
FailureRecord(uploaded_file, total, feedback, text_content) ==
    [filename |-> uploaded_file.name,
     file_type |-> IF uploaded_file.file_type # "" THEN uploaded_file.file_type ELSE "unknown",
     total_marks |-> total,
     awarded_marks |-> Num(0, 1),
     percentage |-> Num(0, 1),
     feedback |-> feedback,
     criteria_breakdown |-> JObj(<<>>),
     questions |-> JArr(<<>>),
     text_content |-> text_content]

\* "Prepare result object"
GradedRecord(uploaded_file, total, text_content, grading) ==
    [filename |-> uploaded_file.name,
     file_type |-> uploaded_file.file_type,
     total_marks |-> total,
     awarded_marks |-> grading.total_score,
     percentage |-> NumMul(NumDiv(grading.total_score, Num(total, 1)), Num(100, 1)),
     feedback |-> grading.feedback,
     criteria_breakdown |-> grading.criteria_scores,
     criteria_explanations |->
         IF "criteria_explanations" \in DOMAIN grading
         THEN grading.criteria_explanations ELSE JObj(<<>>),
     questions |-> grading.questions,
     text_content |->
         IF Len(text_content) > PreviewLen
         THEN SubSeq(text_content, 1, PreviewLen) \o <<"...">>
         ELSE text_content]

\* the try block of process_single_file, given the extraction's outcome and
\* what grade_assignment returns
ProcessWith(uploaded_file, total, extracted, graded) ==
    IF extracted.raised THEN extracted
    ELSE IF NoContent(extracted.val)
    THEN Ret(FailureRecord(uploaded_file, total,
                           <<"No text content could be extracted from this file.">>,
                           <<"No content available">>))
    ELSE IF graded.raised THEN graded
    ELSE Ret(GradedRecord(uploaded_file, total, extracted.val.text, graded.val))

\* the try block of process_single_file
ProcessBody(uploaded_file, a, total, criteria) ==
    ProcessWith(uploaded_file, total, ExtractText(uploaded_file),
                grade_assignment(a, total, criteria))

\* the except clause of process_single_file
ProcessExcept(uploaded_file, total, body) ==
    IF body.raised
    THEN Ret(FailureRecord(uploaded_file, total, <<"Error processing file: ">> \o body.msg,
                           <<"Error occurred during processing">>))
    ELSE body

\* mutant: the try block without its except clause
process_single_file_unguarded(uploaded_file, a, total, criteria) ==
    ProcessBody(uploaded_file, a, total, criteria)

process_single_file(uploaded_file, a, total, criteria) ==
    ProcessExcept(uploaded_file, total, ProcessBody(uploaded_file, a, total, criteria))

\* ------------------------------------------------------------------------
\* Python floats.  A float keeps MantBits significant bits and every
\* arithmetic operation rounds its exact result to the nearest float, ties
\* to even (IEEE 754; MantBits is 53 in CPython).  Small integers are floats.
\* ------------------------------------------------------------------------
MantBits == 8

Pow2(k) == 2 ^ k

NumAdd(x, y) == Num(x.n * y.d + y.n * x.d, x.d * y.d)
NumSub(x, y) == Num(x.n * y.d - y.n * x.d, x.d * y.d)
NumLe(x, y) == x.d # 0 /\ y.d # 0 /\ x.n * y.d <= y.n * x.d
PyInt(k) == Num(k, 1)

\* the unit in the last place of n/d > 0: the power of two un/ud for which
\* 2^(MantBits-1) <= (n/d)/(un/ud) < 2^MantBits
RECURSIVE Ulp(_, _, _, _)
Ulp(n, d, un, ud) ==
    IF n * ud >= Pow2(MantBits) * un * d
    THEN Ulp(n, d, un * 2, ud)
    ELSE IF n * ud < Pow2(MantBits - 1) * un * d
    THEN Ulp(n, d, un, ud * 2)
    ELSE [un |-> un, ud |-> ud]

\* round half to even of a/b (a >= 0, b > 0)
RoundHalfEven(a, b) ==
    IF 2 * (a % b) > b \/ (2 * (a % b) = b /\ (a \div b) % 2 = 1)
    THEN (a \div b) + 1
    ELSE a \div b

\* n/d > 0 rounded to a multiple of its unit u
RoundTo(n, d, u) == Num(RoundHalfEven(n * u.ud, d * u.un) * u.un, u.ud)

\* the float nearest to the exact number x
Float(x) ==
    IF x.n = 0 THEN x
    ELSE IF x.n > 0 THEN RoundTo(x.n, x.d, Ulp(x.n, x.d, 1, 1))
    ELSE NumSub(PyInt(0), RoundTo(-x.n, x.d, Ulp(-x.n, x.d, 1, 1)))

\* x + y, x - y, x * y, x / y on floats
FAdd(x, y) == Float(NumAdd(x, y))
FSub(x, y) == Float(NumSub(x, y))
FMul(x, y) == Float(NumMul(x, y))
FDiv(x, y) == Float(NumDiv(x, y))

\* the largest m with m * m <= a, for lo * lo <= a < hi * hi, by bisection
RECURSIVE ISqrt(_, _, _)
ISqrt(a, lo, hi) ==
    IF hi - lo <= 1 THEN lo
    ELSE IF ((lo + hi) \div 2) * ((lo + hi) \div 2) <= a
    THEN ISqrt(a, (lo + hi) \div 2, hi)
    ELSE ISqrt(a, lo, (lo + hi) \div 2)

\* the unit of sqrt(n/d), n/d > 0: the power of two u for which
\* 4^(MantBits-1) <= (n/d)/u^2 < 4^MantBits
RECURSIVE SqrtUlp(_, _, _, _)
SqrtUlp(n, d, un, ud) ==
    IF n * ud * ud >= Pow2(2 * MantBits) * un * un * d
    THEN SqrtUlp(n, d, un * 2, ud)
    ELSE IF n * ud * ud < Pow2(2 * MantBits - 2) * un * un * d
    THEN SqrtUlp(n, d, un, ud * 2)
    ELSE [un |-> un, ud |-> ud]

\* sqrt(n/d) in units of u, rounded to nearest: with q = (n/d)/u^2 and
\* m = floor(sqrt(q)), the root is above m + 1/2 exactly when q > m^2 + m
SqrtMantissa(n, d, u, m) ==
    IF n * u.ud * u.ud > (m * m + m) * u.un * u.un * d THEN m + 1 ELSE m

SqrtIn(n, d, u) ==
    Num(SqrtMantissa(n, d, u,
                     ISqrt((n * u.ud * u.ud) \div (d * u.un * u.un),
                           Pow2(MantBits - 1), Pow2(MantBits)))
          * u.un, u.ud)

\* math.sqrt / numpy.sqrt of a float x >= 0: the float nearest to the root
FSqrt(x) == IF x.n = 0 THEN x ELSE SqrtIn(x.n, x.d, SqrtUlp(x.n, x.d, 1, 1))

\* ------------------------------------------------------------------------
\* pandas and numpy, as far as AnalyticsService uses them
\* ------------------------------------------------------------------------
JBool(b) == [t |-> "bool", b |-> b]

\* the missing value of a DataFrame cell
NaN == [t |-> "nan"]

\* pd.notna(v)
NotNa(v) == v.t # "nan"

\* a column name: 'filename', ... are Col(0, field) and
\* f'question_{q}_{field}' is Col(q, field)
Col(q, field) == [q |-> q, field |-> field]

\* pd.DataFrame(): no columns, no rows
EmptyDataFrame == [t |-> "df", columns |-> <<>>, rows |-> <<>>]

\* self.df before any load_results
DfNone == [t |-> "none", columns |-> <<>>, rows |-> <<>>]

\* the columns of pd.DataFrame(data): the keys of the dicts of data, in the
\* order of their first appearance
RECURSIVE ColumnsOf(_, _, _)
ColumnsOf(data, r, acc) ==
    IF r > Len(data) THEN acc
    ELSE ColumnsOf(data, r + 1,
                   acc \o SelectSeq([i \in 1..Len(data[r]) |-> data[r][i].k],
                                    LAMBDA c : \A j \in 1..Len(acc) : acc[j] # c))

\* mutant: a missing value is filled with 0
DataFrameWith_zero_filled(data, cols) ==
    [t |-> "df",
     columns |-> cols,
     rows |-> [r \in 1..Len(data) |->
                 [c \in 1..Len(cols) |-> Get(data[r], cols[c], PyInt(0))]]]

\* pd.DataFrame(data) with its columns: a row holds, column by column, the
\* dict's value, NaN where the dict lacks the key
DataFrameWith(data, cols) ==
    [t |-> "df",
     columns |-> cols,
     rows |-> [r \in 1..Len(data) |-> [c \in 1..Len(cols) |-> Get(data[r], cols[c], NaN)]]]

DataFrameOf(data) == DataFrameWith(data, ColumnsOf(data, 1, <<>>))

\* col in df.columns
HasColumn(df, col) == \E c \in 1..Len(df.columns) : df.columns[c] = col

\* row[col] of a row of df, col being a column of df
Cell(df, row, col) == row[CHOOSE c \in 1..Len(df.columns) : df.columns[c] = col]

\* df[col].tolist()
ToList(df, col) == [r \in 1..Len(df.rows) |-> Cell(df, df.rows[r], col)]

\* Series.sum() of a column of flags: missing cells are skipped, True is 1
RECURSIVE FlagSum(_, _)
FlagSum(cells, r) ==
    IF r > Len(cells) THEN 0
    ELSE (IF NotNa(cells[r]) /\ cells[r].b THEN 1 ELSE 0) + FlagSum(cells, r + 1)

\* the sum numpy's add.reduce makes of a short array: left to right
RECURSIVE FSum(_, _, _)
FSum(xs, i, acc) == IF i > Len(xs) THEN acc ELSE FSum(xs, i + 1, FAdd(acc, xs[i]))

\* np.mean(xs) of a non-empty list
np_mean(xs) == FDiv(FSum(xs, 1, PyInt(0)), PyInt(Len(xs)))

\* sorted(items, key=...) on items paired with their keys: insertion after
\* the items whose key is not larger, so equal keys keep their order
RECURSIVE InsertByKey(_, _, _)
InsertByKey(acc, x, i) ==
    IF i > Len(acc) \/ NumLt(x.key, acc[i].key)
    THEN SubSeq(acc, 1, i - 1) \o <<x>> \o SubSeq(acc, i, Len(acc))
    ELSE InsertByKey(acc, x, i + 1)

RECURSIVE SortedFrom(_, _, _)
SortedFrom(xs, i, acc) ==
    IF i > Len(xs) THEN acc ELSE SortedFrom(xs, i + 1, InsertByKey(acc, xs[i], 1))

\* sorted(xs) of a list of [key, item] pairs, ascending by key
Sorted(xs) == SortedFrom(xs, 1, <<>>)

\* sorted(xs) of a list of numbers
Items(pairs) == [i \in 1..Len(pairs) |-> pairs[i].item]
SortedNumbers(xs) == Items(Sorted([j \in 1..Len(xs) |-> [key |-> xs[j], item |-> xs[j]]]))

\* the median of a sorted non-empty array: the middle, or the mean of the
\* two middles
MedianOf(s) ==
    IF Len(s) % 2 = 1 THEN s[(Len(s) + 1) \div 2]
    ELSE np_mean(<<s[Len(s) \div 2], s[(Len(s) \div 2) + 1]>>)

\* np.median(xs) of a non-empty list
np_median(xs) == MedianOf(SortedNumbers(xs))

\* numpy's _var with ddof = 0, given the array's mean: the mean of the
\* squared deviations; then the root
StdAround(xs, arrmean) ==
    FSqrt(FDiv(FSum([i \in 1..Len(xs) |->
                        FMul(FSub(xs[i], arrmean), FSub(xs[i], arrmean))], 1, PyInt(0)),
               PyInt(Len(xs))))

\* np.std(xs) of a non-empty list
np_std(xs) == StdAround(xs, np_mean(xs))

\* min(xs), max(xs) of a non-empty list of numbers
RECURSIVE PyMinFrom(_, _, _), PyMaxFrom(_, _, _)
PyMinFrom(xs, i, m) ==
    IF i > Len(xs) THEN m ELSE PyMinFrom(xs, i + 1, IF NumLt(xs[i], m) THEN xs[i] ELSE m)
PyMaxFrom(xs, i, m) ==
    IF i > Len(xs) THEN m ELSE PyMaxFrom(xs, i + 1, IF NumLt(m, xs[i]) THEN xs[i] ELSE m)
PyMin(xs) == PyMinFrom(xs, 2, xs[1])
PyMax(xs) == PyMaxFrom(xs, 2, xs[1])

\* max(items, key=...) on the keys of the items: the position of the first
\* key that no other exceeds
RECURSIVE FirstMaxFrom(_, _, _)
FirstMaxFrom(keys, i, best) ==
    IF i > Len(keys) THEN best
    ELSE FirstMaxFrom(keys, i + 1, IF keys[i] > keys[best] THEN i ELSE best)
FirstMax(keys) == FirstMaxFrom(keys, 2, 1)

\* ------------------------------------------------------------------------
\* AnalyticsService
\* ------------------------------------------------------------------------
\* (score / max_score) * 100 if max_score > 0 else 0
QuestionPercentage(question) ==
    IF NumLt(PyInt(0), Get(question.o, "max_score", PyInt(0)))
    THEN FMul(FDiv(Get(question.o, "score", PyInt(0)), Get(question.o, "max_score", PyInt(1))),
              PyInt(100))
    ELSE PyInt(0)

\* mutant: a question without an attempted flag counts as attempted
QuestionData_attempted_by_default(i, question) ==
    <<[k |-> Col(i, "attempted"), v |-> Get(question.o, "attempted", JBool(TRUE))],
      [k |-> Col(i, "score"), v |-> Get(question.o, "score", PyInt(0))],
      [k |-> Col(i, "max_score"), v |-> Get(question.o, "max_score", PyInt(0))],
      [k |-> Col(i, "percentage"), v |-> QuestionPercentage(question)]>>

\* the four entries the loop over questions adds for question i
QuestionData(i, question) ==
    <<[k |-> Col(i, "attempted"), v |-> Get(question.o, "attempted", JBool(FALSE))],
      [k |-> Col(i, "score"), v |-> Get(question.o, "score", PyInt(0))],
      [k |-> Col(i, "max_score"), v |-> Get(question.o, "max_score", PyInt(0))],
      [k |-> Col(i, "percentage"), v |-> QuestionPercentage(question)]>>

RECURSIVE QuestionsData(_, _)
QuestionsData(questions, i) ==
    IF i > Len(questions) THEN <<>>
    ELSE QuestionData(i, questions[i]) \o QuestionsData(questions, i + 1)

\* student_data of one result
StudentData(result) ==
    <<[k |-> Col(0, "filename"), v |-> result.filename],
      [k |-> Col(0, "total_marks"), v |-> result.total_marks],
      [k |-> Col(0, "awarded_marks"), v |-> result.awarded_marks],
      [k |-> Col(0, "percentage"), v |-> result.percentage]>>
    \o QuestionsData(result.questions.a, 1)

\* _create_dataframe on self.results
_create_dataframe(results) ==
    IF results = <<>> THEN EmptyDataFrame
    ELSE DataFrameOf([r \in 1..Len(results) |-> StudentData(results[r])])

\* self.df is None or self.df.empty
NoData(df) == df.t = "none" \/ Len(df.rows) = 0 \/ Len(df.columns) = 0

get_max_questions(df) ==
    IF NoData(df) THEN 0
    ELSE Len(SelectSeq(df.columns, LAMBDA col : col.q > 0 /\ col.field = "attempted"))

\* the result of analyze_question_attempts from the column's sum
AttemptsOf(attempted_count, total_students) ==
    [attempted_count |-> attempted_count,
     total_students |-> total_students,
     percentage |-> IF total_students > 0
                    THEN FMul(FDiv(PyInt(attempted_count), PyInt(total_students)), PyInt(100))
                    ELSE PyInt(0)]

\* mutant: total_students counts only the rows that have the slot
analyze_question_attempts_present_rows(df, question_number) ==
    IF NoData(df)
    THEN [attempted_count |-> 0, total_students |-> 0, percentage |-> PyInt(0)]
    ELSE IF ~HasColumn(df, Col(question_number, "attempted"))
    THEN [attempted_count |-> 0, total_students |-> Len(df.rows), percentage |-> PyInt(0)]
    ELSE AttemptsOf(FlagSum(ToList(df, Col(question_number, "attempted")), 1),
                    Len(SelectSeq(ToList(df, Col(question_number, "attempted")), NotNa)))

analyze_question_attempts(df, question_number) ==
    IF NoData(df)
    THEN [attempted_count |-> 0, total_students |-> 0, percentage |-> PyInt(0)]
    ELSE IF ~HasColumn(df, Col(question_number, "attempted"))
    THEN [attempted_count |-> 0, total_students |-> Len(df.rows), percentage |-> PyInt(0)]
    ELSE AttemptsOf(FlagSum(ToList(df, Col(question_number, "attempted")), 1), Len(df.rows))

\* attempts_data: one entry per question 1..max_questions
AttemptsData(df, max_questions) ==
    [i \in 1..max_questions |-> analyze_question_attempts(df, i)]

\* the entry max(attempts_data, key=attempts) picks, as the method returns it
MostAttemptedAt(attempts_data, i) ==
    [question_number |-> i,
     attempts |-> attempts_data[i].attempted_count,
     percentage |-> attempts_data[i].percentage]

\* mutant: the last of the questions with the most attempts
MostAttemptedOf_last_maximum(attempts_data) ==
    MostAttemptedAt(attempts_data,
                    CHOOSE i \in 1..Len(attempts_data) :
                        /\ \A j \in 1..Len(attempts_data) :
                              attempts_data[j].attempted_count <= attempts_data[i].attempted_count
                        /\ \A j \in (i + 1)..Len(attempts_data) :
                              attempts_data[j].attempted_count < attempts_data[i].attempted_count)


MostAttemptedOf(attempts_data) ==
    MostAttemptedAt(attempts_data,
                    FirstMax([i \in 1..Len(attempts_data) |-> attempts_data[i].attempted_count]))

get_most_attempted_question(df) ==
    IF NoData(df) \/ get_max_questions(df) = 0
    THEN [question_number |-> 0, attempts |-> 0, percentage |-> PyInt(0)]
    ELSE MostAttemptedOf(AttemptsData(df, get_max_questions(df)))

RECURSIVE TotalAttempts(_, _, _)
TotalAttempts(df, i, max_questions) ==
    IF i > max_questions THEN 0
    ELSE (IF HasColumn(df, Col(i, "attempted"))
          THEN FlagSum(ToList(df, Col(i, "attempted")), 1) ELSE 0)
         + TotalAttempts(df, i + 1, max_questions)

get_average_questions_attempted(df) ==
    IF NoData(df) \/ get_max_questions(df) = 0 THEN PyInt(0)
    ELSE FDiv(PyInt(TotalAttempts(df, 1, get_max_questions(df))), PyInt(Len(df.rows)))

\* one entry of skip_data, from the analysis of its question
SkipEntry(i, analysis) ==
    [question_number |-> i,
     skipped_count |-> analysis.total_students - analysis.attempted_count,
     percentage |->
         IF analysis.total_students > 0
         THEN FMul(FDiv(PyInt(analysis.total_students - analysis.attempted_count),
                        PyInt(analysis.total_students)), PyInt(100))
         ELSE PyInt(0)]

SkipData(df, max_questions) ==
    [i \in 1..max_questions |-> SkipEntry(i, analyze_question_attempts(df, i))]

MostSkippedOf(skip_data) ==
    skip_data[FirstMax([i \in 1..Len(skip_data) |-> skip_data[i].skipped_count])]

get_most_skipped_question(df) ==
    IF NoData(df) \/ get_max_questions(df) = 0
    THEN [question_number |-> 0, skipped_count |-> 0, percentage |-> PyInt(0)]
    ELSE MostSkippedOf(SkipData(df, get_max_questions(df)))

\* grade_ranges
GradeLabels == {"A (90-100%)", "B (80-89%)", "C (70-79%)", "D (60-69%)", "F (0-59%)"}
GradeMin(grade) ==
    CASE grade = "A (90-100%)" -> 90 [] grade = "B (80-89%)" -> 80
      [] grade = "C (70-79%)" -> 70 [] grade = "D (60-69%)" -> 60 [] grade = "F (0-59%)" -> 0
GradeMax(grade) ==
    CASE grade = "A (90-100%)" -> 100 [] grade = "B (80-89%)" -> 89
      [] grade = "C (70-79%)" -> 79 [] grade = "D (60-69%)" -> 69 [] grade = "F (0-59%)" -> 59

\* sum(1 for p in percentages if min_val <= p <= max_val)
GradeCount(percentages, grade) ==
    Cardinality({i \in 1..Len(percentages) :
                    /\ NumLe(PyInt(GradeMin(grade)), percentages[i])
                    /\ NumLe(percentages[i], PyInt(GradeMax(grade)))})

GradeDistributionOf(percentages) ==
    [grades |-> [grade \in GradeLabels |-> GradeCount(percentages, grade)],
     average |-> np_mean(percentages),
     median |-> np_median(percentages),
     std_dev |-> np_std(percentages)]

get_grade_distribution(df) ==
    IF NoData(df)
    THEN [grades |-> <<>>, average |-> PyInt(0), median |-> PyInt(0), std_dev |-> PyInt(0)]
    ELSE GradeDistributionOf(ToList(df, Col(0, "percentage")))

\* question_percentages of a row: the percentages of the questions
\* 1..max_questions that the row has
QuestionPercentages(df, row, max_questions) ==
    LET present == SelectSeq([i \in 1..max_questions |-> Col(i, "percentage")],
                             LAMBDA col : HasColumn(df, col) /\ NotNa(Cell(df, row, col)))
    IN [i \in 1..Len(present) |-> Cell(df, row, present[i])]

\* the entry of a consistent student, paired with its sort key
ConsistentEntry(filename, question_percentages, std_dev, avg_score) ==
    [key |-> std_dev,
     item |-> [filename |-> filename,
               average_score |-> avg_score,
               std_deviation |-> std_dev,
               question_scores |-> question_percentages]]

\* what the loop body appends for a row: one entry or nothing
ConsistentOf(filename, question_percentages) ==
    IF Len(question_percentages) >= 2
       /\ NumLt(np_std(question_percentages), PyInt(15))
       /\ NumLt(PyInt(50), np_mean(question_percentages))
    THEN <<ConsistentEntry(filename, question_percentages,
                           np_std(question_percentages), np_mean(question_percentages))>>
    ELSE <<>>

RECURSIVE ConsistentStudents(_, _, _)
ConsistentStudents(df, r, max_questions) ==
    IF r > Len(df.rows) THEN <<>>
    ELSE ConsistentOf(Cell(df, df.rows[r], Col(0, "filename")),
                      QuestionPercentages(df, df.rows[r], max_questions))
         \o ConsistentStudents(df, r + 1, max_questions)

\* mutant: the students in row order, not sorted
get_consistent_performers_unsorted(df) ==
    IF NoData(df) \/ get_max_questions(df) < 2 THEN <<>>
    ELSE Items(ConsistentStudents(df, 1, get_max_questions(df)))

get_consistent_performers(df) ==
    IF NoData(df) \/ get_max_questions(df) < 2 THEN <<>>
    ELSE Items(Sorted(ConsistentStudents(df, 1, get_max_questions(df))))

\* the entry of an inconsistent student, paired with the key that sorts
\* by descending deviation
InconsistentEntry(filename, question_percentages, std_dev, min_score, max_score) ==
    [key |-> NumSub(PyInt(0), std_dev),
     item |-> [filename |-> filename,
               std_deviation |-> std_dev,
               score_range |-> FSub(max_score, min_score),
               min_score |-> min_score,
               max_score |-> max_score,
               question_scores |-> question_percentages]]

InconsistentOf(filename, question_percentages) ==
    IF Len(question_percentages) >= 2
       /\ \/ NumLt(PyInt(25), np_std(question_percentages))
          \/ NumLt(PyInt(40), FSub(PyMax(question_percentages), PyMin(question_percentages)))
    THEN <<InconsistentEntry(filename, question_percentages, np_std(question_percentages),
                             PyMin(question_percentages), PyMax(question_percentages))>>
    ELSE <<>>

RECURSIVE InconsistentStudents(_, _, _)
InconsistentStudents(df, r, max_questions) ==
    IF r > Len(df.rows) THEN <<>>
    ELSE InconsistentOf(Cell(df, df.rows[r], Col(0, "filename")),
                        QuestionPercentages(df, df.rows[r], max_questions))
         \o InconsistentStudents(df, r + 1, max_questions)

\* mutant: sorted by ascending deviation
get_inconsistent_performers_ascending(df) ==
    IF NoData(df) \/ get_max_questions(df) < 2 THEN <<>>
    ELSE LET students == InconsistentStudents(df, 1, get_max_questions(df))
         IN Items(Sorted([i \in 1..Len(students) |->
                             [key |-> students[i].item.std_deviation,
                              item |-> students[i].item]]))

\* sorted(..., key=std_deviation, reverse=True): descending, equal keys in
\* their original order
get_inconsistent_performers(df) ==
    IF NoData(df) \/ get_max_questions(df) < 2 THEN <<>>
    ELSE Items(Sorted(InconsistentStudents(df, 1, get_max_questions(df))))

AboveAverageOf(percentages, class_average) ==
    [percentage |->
         FMul(FDiv(PyInt(Cardinality({i \in 1..Len(percentages) :
                                         NumLt(class_average, percentages[i])})),
                   PyInt(Len(percentages))), PyInt(100)),
     count |-> Cardinality({i \in 1..Len(percentages) : NumLt(class_average, percentages[i])}),
     total |-> Len(percentages),
     class_average |-> class_average]

\* mutant: no guard for the empty dataset; df['percentage'] raises KeyError
\* on a frame without that column
get_above_average_percentage_unguarded(df) ==
    IF ~HasColumn(df, Col(0, "percentage")) THEN Raise("KeyError", <<"percentage">>)
    ELSE AboveAverageOf(ToList(df, Col(0, "percentage")),
                        np_mean(ToList(df, Col(0, "percentage"))))


get_above_average_percentage(df) ==
    IF NoData(df)
    THEN [percentage |-> PyInt(0), count |-> 0, total |-> 0, class_average |-> PyInt(0)]
    ELSE AboveAverageOf(ToList(df, Col(0, "percentage")),
                        np_mean(ToList(df, Col(0, "percentage"))))

\* ------------------------------------------------------------------------
\* Record lists handed to the analytics: records as process_single_file
\* builds them, with the questions the AI service reported
\* ------------------------------------------------------------------------
MaxRecords == 3

\* one entry of "questions": attempted is True, False or missing
Question(attempted, score, max_score) ==
    JObj((IF attempted = "missing" THEN <<>>
          ELSE <<[k |-> "attempted", v |-> JBool(attempted = "yes")]>>)
         \o <<[k |-> "score", v |-> PyInt(score)], [k |-> "max_score", v |-> PyInt(max_score)]>>)

\* the questions of the submissions of a batch: one batch whose per-question
\* scores matter, one whose attempted flags matter
QuestionLists ==
    {{<<Question("yes", 60, 100), Question("yes", 62, 100), Question("yes", 58, 100)>>,
      <<Question("yes", 10, 100), Question("yes", 95, 100)>>,
      <<Question("yes", 50, 100), Question("yes", 70, 100), Question("yes", 71, 100),
        Question("yes", 91, 100)>>,
      <<Question("no", 0, 1), Question("yes", 1, 0), Question("yes", 1, 1)>>},
     {<<Question("yes", 1, 1)>>,
      <<Question("no", 1, 2), Question("yes", 1, 2)>>,
      <<Question("yes", 3, 4), Question("missing", 1, 1)>>,
      <<Question("missing", 1, 1), Question("no", 7, 8), Question("yes", 3, 4)>>}}

\* the record of a graded submission (app.py: "Prepare result object")
RecordOf(awarded, total, questions) ==
    [filename |-> 0,
     total_marks |-> total,
     awarded_marks |-> PyInt(awarded),
     percentage |-> FMul(FDiv(PyInt(awarded), PyInt(total)), PyInt(100)),
     questions |-> JArr(questions)]

\* the records of one batch: the marks awarded out of the batch's total
\* marks, or the questions of submissions that all got 7 out of 10
BatchRecords ==
    {{RecordOf(a, 10, <<>>) : a \in {0, 5, 7, 9}},
     {RecordOf(a, 200, <<>>) : a \in {119, 160, 179}},
     {RecordOf(a, 9, <<>>) : a \in {5, 9}},
     {RecordOf(a, 8, <<>>) : a \in {4, 7}}}
    \cup {{RecordOf(7, 10, q) : q \in qs} : qs \in QuestionLists}

\* the record lists: up to MaxRecords records of one batch, each named by
\* its position
RecordLists ==
    UNION {UNION {{[i \in 1..n |-> [f[i] EXCEPT !.filename = i]] : f \in [1..n -> recs]} :
                     n \in 0..MaxRecords} : recs \in BatchRecords}

\* ------------------------------------------------------------------------
\* State
\* ------------------------------------------------------------------------
VARIABLES
    pc,              \* "idle", "graded"; in a batch "loop", "done", "aborted"
    total_marks,     \* the sidebar's total marks
    custom_criteria, \* the sidebar's criteria
    api,             \* what the network call of the last grading did
    parsed,          \* the last call of _parse_grading_response, if made
    grading_result,  \* what the last grade_assignment returned
    uploaded_files,  \* the files of the batch
    idx,             \* the number of files the loop of main has taken
    all_results,     \* main's result list
    calls,           \* the outbound AI calls made: the file and what happened
    results,         \* AnalyticsService.results
    df,              \* AnalyticsService.df
    answer,          \* the last analytics query and what it returned
    sessions,        \* the browser sessions that share the AnalyticsService
    call             \* a helper of GradingService applied on its own: its
                     \* argument and what it returned

vars == <<pc, total_marks, custom_criteria, api, parsed, grading_result,
          uploaded_files, idx, all_results, calls, results, df, answer,
          sessions, call>>

\* no analytics query was made since the last load
NoAnswer == [query |-> "none", n |-> 0, out |-> <<>>]

\* no helper is applied on its own
NoCall == [fn |-> "none", arg |-> <<>>, out |-> <<>>]

\* AnalyticsService.__init__
NewAnalyticsService ==
    /\ results = <<>>
    /\ df = DfNone
    /\ answer = NoAnswer

NotCalled == [called |-> FALSE, out |-> Ret(JNull)]

Init ==
    /\ pc = "idle"
    /\ total_marks \in Marks
    /\ custom_criteria \in CriteriaSets
    /\ api = NoApi
    /\ parsed = NotCalled
    /\ grading_result = Ret(JNull)
    /\ uploaded_files = <<>>
    /\ idx = 0
    /\ all_results = <<>>
    /\ calls = <<>>
    /\ NewAnalyticsService
    /\ sessions = <<>>
    /\ call = NoCall

\* one call of grade_assignment; the network's behaviour is the input
GradeAssignment ==
    /\ pc = "idle"
    /\ \E a \in ApiOutcomes :
         /\ api' = a
         /\ parsed' = ParseCall(a, total_marks, custom_criteria)
         /\ grading_result' = grade_assignment(a, total_marks, custom_criteria)
         /\ calls' = calls \o [k \in 1..Len(OutboundCalls(a)) |->
                                [file |-> 0, api |-> OutboundCalls(a)[k]]]
    /\ pc' = "graded"
    /\ UNCHANGED <<total_marks, custom_criteria, uploaded_files, idx, all_results,
                   results, df, answer, sessions, call>>

Next == GradeAssignment

Spec == Init /\ [][Next]_vars

\* the "Grade All Assignments" button was pressed on a non-empty upload
BatchInit ==
    /\ pc = "loop"
    /\ total_marks \in Marks
    /\ custom_criteria \in CriteriaSets
    /\ api = NoApi
    /\ parsed = NotCalled
    /\ grading_result = Ret(JNull)
    /\ uploaded_files \in Uploads
    /\ idx = 0
    /\ all_results = <<>>
    /\ calls = <<>>
    /\ NewAnalyticsService
    /\ sessions = <<>>
    /\ call = NoCall

\* the loop of main takes what process_single_file gave: append and go on,
\* or leave for the except clause of main
TakeResult(result) ==
    IF result.raised
    THEN /\ pc' = "aborted"
         /\ UNCHANGED <<idx, all_results>>
    ELSE /\ pc' = "loop"
         /\ idx' = idx + 1
         /\ all_results' = IF result.val # <<>> THEN Append(all_results, result.val)
                           ELSE all_results

\* one iteration of the for loop of main on a file whose text is graded
ProcessFile ==
    /\ pc = "loop"
    /\ idx < Len(uploaded_files)
    /\ Grades(uploaded_files[idx + 1])
    /\ \E a \in BatchApiOutcomes :
         /\ api' = a
         /\ parsed' = ParseCall(a, total_marks, custom_criteria)
         /\ grading_result' = GradeResult(parsed')
         /\ calls' = calls \o [k \in 1..Len(OutboundCalls(a)) |->
                                [file |-> idx + 1, api |-> OutboundCalls(a)[k]]]
         /\ TakeResult(process_single_file(uploaded_files[idx + 1], a, total_marks,
                                           custom_criteria))
    /\ UNCHANGED <<total_marks, custom_criteria, uploaded_files,
                   results, df, answer, sessions, call>>

\* one iteration of the for loop of main on a file that yields no text
SkipFile ==
    /\ pc = "loop"
    /\ idx < Len(uploaded_files)
    /\ ~Grades(uploaded_files[idx + 1])
    /\ TakeResult(process_single_file(uploaded_files[idx + 1], NoApi, total_marks,
                                      custom_criteria))
    /\ UNCHANGED <<total_marks, custom_criteria, uploaded_files, api, parsed,
                   grading_result, calls, results, df, answer, sessions, call>>

\* the loop is exhausted: progress 1.0, results are displayed
FinishBatch ==
    /\ pc = "loop"
    /\ idx = Len(uploaded_files)
    /\ pc' = "done"
    /\ UNCHANGED <<total_marks, custom_criteria, api, parsed, grading_result,
                   uploaded_files, idx, all_results, calls, results,
                   df, answer, sessions, call>>

BatchNext == ProcessFile \/ SkipFile \/ FinishBatch

BatchSpec == BatchInit /\ [][BatchNext]_vars

\* ------------------------------------------------------------------------
\* The analytics session: display_analytics loads the session's results
\* into the AnalyticsService and the dashboard queries it
\* ------------------------------------------------------------------------
AnalyticsInit ==
    /\ pc = "analytics"
    /\ total_marks = 100
    /\ custom_criteria = <<>>
    /\ api = NoApi
    /\ parsed = NotCalled
    /\ grading_result = Ret(JNull)
    /\ uploaded_files = <<>>
    /\ idx = 0
    /\ all_results \in RecordLists
    /\ calls = <<>>
    /\ NewAnalyticsService
    /\ sessions = <<>>
    /\ call = NoCall

\* load_results(results) with the caller's list
LoadResults ==
    /\ pc = "analytics"
    /\ results' = all_results
    /\ df' = _create_dataframe(results')
    /\ answer' = NoAnswer
    /\ UNCHANGED <<pc, total_marks, custom_criteria, api, parsed, grading_result,
                   uploaded_files, idx, all_results, calls, sessions, call>>

\* a query method returns out; it assigns nothing
Returns(query, n, out) ==
    /\ pc = "analytics"
    /\ answer' = [query |-> query, n |-> n, out |-> out]
    /\ UNCHANGED <<pc, total_marks, custom_criteria, api, parsed, grading_result,
                   uploaded_files, idx, all_results, calls, results,
                   df, sessions, call>>

GetMaxQuestions == Returns("get_max_questions", 0, get_max_questions(df))

AnalyzeQuestionAttempts ==
    \E question_number \in 1..(get_max_questions(df) + 1) :
        Returns("analyze_question_attempts", question_number,
                analyze_question_attempts(df, question_number))

GetMostAttemptedQuestion ==
    Returns("get_most_attempted_question", 0, get_most_attempted_question(df))

GetAverageQuestionsAttempted ==
    Returns("get_average_questions_attempted", 0, get_average_questions_attempted(df))

GetMostSkippedQuestion ==
    Returns("get_most_skipped_question", 0, get_most_skipped_question(df))

GetGradeDistribution == Returns("get_grade_distribution", 0, get_grade_distribution(df))

\* mutant: the query reverses the rows of self.df in place before its scan
GetConsistentPerformers_in_place ==
    /\ pc = "analytics"
    /\ df.t = "df"
    /\ df' = [df EXCEPT !.rows = [r \in 1..Len(df.rows) |-> df.rows[Len(df.rows) + 1 - r]]]
    /\ answer' = [query |-> "get_consistent_performers", n |-> 0,
                  out |-> get_consistent_performers(df')]
    /\ UNCHANGED <<pc, total_marks, custom_criteria, api, parsed, grading_result,
                   uploaded_files, idx, all_results, calls, results, sessions, call>>


GetConsistentPerformers ==
    Returns("get_consistent_performers", 0, get_consistent_performers(df))

GetInconsistentPerformers ==
    Returns("get_inconsistent_performers", 0, get_inconsistent_performers(df))

GetAboveAveragePercentage ==
    Returns("get_above_average_percentage", 0, get_above_average_percentage(df))

Query ==
    \/ GetMaxQuestions
    \/ AnalyzeQuestionAttempts
    \/ GetMostAttemptedQuestion
    \/ GetAverageQuestionsAttempted
    \/ GetMostSkippedQuestion
    \/ GetGradeDistribution
    \/ GetConsistentPerformers
    \/ GetInconsistentPerformers
    \/ GetAboveAveragePercentage

AnalyticsNext == LoadResults \/ Query

AnalyticsSpec == AnalyticsInit /\ [][AnalyticsNext]_vars

\* ------------------------------------------------------------------------
\* Sessions sharing the AnalyticsService: initialize_services is cached
\* with st.cache_resource, so every browser session's display_analytics
\* loads into and queries the same object, each on its own thread
\* ------------------------------------------------------------------------
MaxSessions == 2

Sessions == 1..MaxSessions

\* the list a session hands to display_analytics (never empty: main calls
\* it under "if all_results"); the third has a record whose AI payload
\* said "questions": null
SessionRecordLists ==
    {<<[RecordOf(9, 10, <<>>) EXCEPT !.filename = 1]>>,
     <<[RecordOf(7, 10, <<Question("yes", 10, 100), Question("no", 95, 100)>>)
            EXCEPT !.filename = 1],
       [RecordOf(5, 10, <<Question("yes", 60, 100), Question("yes", 62, 100)>>)
            EXCEPT !.filename = 2]>>,
     <<[RecordOf(5, 10, <<>>) EXCEPT !.filename = 1, !.questions = JNull]>>}

\* _create_dataframe raises: enumerate(questions) on a value that is no list
CreateRaises(rs) == \E r \in 1..Len(rs) : rs[r].questions.t # "arr"

\* the query methods of the dashboard
Queries ==
    {"get_max_questions", "analyze_question_attempts", "get_most_attempted_question",
     "get_average_questions_attempted", "get_most_skipped_question",
     "get_grade_distribution", "get_consistent_performers",
     "get_inconsistent_performers", "get_above_average_percentage"}

\* the arguments the query takes on the table
ArgumentsOf(table, query) ==
    IF query = "analyze_question_attempts" THEN 1..(get_max_questions(table) + 1) ELSE {0}

\* what the query method returns on the table
AnswerTo(table, query, n) ==
    CASE query = "get_max_questions" -> get_max_questions(table)
      [] query = "analyze_question_attempts" -> analyze_question_attempts(table, n)
      [] query = "get_most_attempted_question" -> get_most_attempted_question(table)
      [] query = "get_average_questions_attempted" -> get_average_questions_attempted(table)
      [] query = "get_most_skipped_question" -> get_most_skipped_question(table)
      [] query = "get_grade_distribution" -> get_grade_distribution(table)
      [] query = "get_consistent_performers" -> get_consistent_performers(table)
      [] query = "get_inconsistent_performers" -> get_inconsistent_performers(table)
      [] query = "get_above_average_percentage" -> get_above_average_percentage(table)

SharedInit ==
    /\ pc = "shared"
    /\ total_marks = 10
    /\ custom_criteria = <<>>
    /\ api = NoApi
    /\ parsed = NotCalled
    /\ grading_result = Ret(JNull)
    /\ uploaded_files = <<>>
    /\ idx = 0
    /\ all_results = <<>>
    /\ calls = <<>>
    /\ NewAnalyticsService
    /\ call = NoCall
    /\ sessions \in [Sessions -> {[pc |-> "start", all_results |-> rs, answer |-> NoAnswer] :
                                     rs \in SessionRecordLists}]

\* load_results, first statement: self.results = results
AssignResults(s) ==
    /\ sessions[s].pc = "start"
    /\ results' = sessions[s].all_results
    /\ sessions' = [sessions EXCEPT ![s].pc = "creating"]
    /\ UNCHANGED <<pc, total_marks, custom_criteria, api, parsed, grading_result,
                   uploaded_files, idx, all_results, calls, df, answer,
                   call>>

\* load_results, second statement: self.df = self._create_dataframe(), which
\* reads self.results as it is now; when it raises, self.df keeps its value
\* and the exception ends the session's run
AssignDataframe(s) ==
    /\ sessions[s].pc = "creating"
    /\ IF CreateRaises(results)
       THEN /\ sessions' = [sessions EXCEPT ![s].pc = "failed"]
            /\ UNCHANGED df
       ELSE /\ sessions' = [sessions EXCEPT ![s].pc = "loaded"]
            /\ df' = _create_dataframe(results)
    /\ UNCHANGED <<pc, total_marks, custom_criteria, api, parsed, grading_result,
                   uploaded_files, idx, all_results, calls, results, answer,
                   call>>

\* one query of the dashboard of session s on the shared service
SessionQuery(s) ==
    /\ sessions[s].pc = "loaded"
    /\ \E query \in Queries : \E n \in ArgumentsOf(df, query) :
          sessions' = [sessions EXCEPT ![s].answer =
                           [query |-> query, n |-> n, out |-> AnswerTo(df, query, n)]]
    /\ UNCHANGED <<pc, total_marks, custom_criteria, api, parsed, grading_result,
                   uploaded_files, idx, all_results, calls, results, df, answer,
                   call>>

SharedNext ==
    \E s \in Sessions : AssignResults(s) \/ AssignDataframe(s) \/ SessionQuery(s)

SharedSpec == SharedInit /\ [][SharedNext]_vars

\* ------------------------------------------------------------------------
\* _combine_feedback applied to the parsed objects the AI service can send
\* ------------------------------------------------------------------------
\* a key the object does not have
Absent == [t |-> "absent"]

Field(key, v) == IF v = Absent THEN <<>> ELSE <<[k |-> <<key>>, v |-> v]>>

\* values of the text fields and of the list fields: absent, null, empty,
\* filled, and a number where a text or a list is asked for
TextValues(w) == {Absent, JNull, JStr(<<>>), JStr(<<w>>)}

ListValues(w1, w2) ==
    {Absent, JNull, JArr(<<>>), JArr(<<JStr(<<w1>>)>>), JArr(<<JStr(<<w1>>), JStr(<<w2>>)>>),
     Num(5, 1)}

FeedbackData ==
    {Field("overall_feedback", a) \o Field("strengths", b)
        \o Field("areas_for_improvement", c) \o Field("grade_justification", d) :
       a \in TextValues("good") \cup {Num(5, 1)}, b \in ListValues("s1", "s2"),
       c \in ListValues("a1", "a2"), d \in TextValues("because")}

FeedbackInit ==
    /\ pc = "helper"
    /\ total_marks = 10
    /\ custom_criteria = <<>>
    /\ api = NoApi
    /\ parsed = NotCalled
    /\ grading_result = Ret(JNull)
    /\ uploaded_files = <<>>
    /\ idx = 0
    /\ all_results = <<>>
    /\ calls = <<>>
    /\ NewAnalyticsService
    /\ sessions = <<>>
    /\ call \in {[fn |-> "_combine_feedback", arg |-> o, out |-> <<>>] : o \in FeedbackData}

\* self._combine_feedback(grading_data)
CombineFeedback ==
    /\ call.fn = "_combine_feedback"
    /\ call.out = <<>>
    /\ call' = [call EXCEPT !.out = <<_combine_feedback(call.arg)>>]
    /\ UNCHANGED <<pc, total_marks, custom_criteria, api, parsed, grading_result,
                   uploaded_files, idx, all_results, calls, results, df, answer,
                   sessions>>

FeedbackNext == CombineFeedback

FeedbackSpec == FeedbackInit /\ [][FeedbackNext]_vars

\* ------------------------------------------------------------------------
\* _repair_json applied to a text, and again to what it returned
\* ------------------------------------------------------------------------
MaxRepairLen == 4

\* braces, brackets, quotes, blanks and a word
RepairAlphabet == {LB, RB, LK, RK, QT, WS, "x"}

RepairTexts == UNION {[1..n -> RepairAlphabet] : n \in 0..MaxRepairLen}

RepairInit ==
    /\ pc = "helper"
    /\ total_marks = 10
    /\ custom_criteria = <<>>
    /\ api = NoApi
    /\ parsed = NotCalled
    /\ grading_result = Ret(JNull)
    /\ uploaded_files = <<>>
    /\ idx = 0
    /\ all_results = <<>>
    /\ calls = <<>>
    /\ NewAnalyticsService
    /\ sessions = <<>>
    /\ call \in {[fn |-> "_repair_json", arg |-> t, out |-> <<>>] : t \in RepairTexts}

\* self._repair_json(json_str)
RepairJson ==
    /\ call.fn = "_repair_json"
    /\ Len(call.out) = 0
    /\ call' = [call EXCEPT !.out = <<_repair_json(call.arg)>>]
    /\ UNCHANGED <<pc, total_marks, custom_criteria, api, parsed, grading_result,
                   uploaded_files, idx, all_results, calls, results, df, answer,
                   sessions>>

\* self._repair_json on the text the first call returned
RepairAgain ==
    /\ call.fn = "_repair_json"
    /\ Len(call.out) = 1
    /\ call' = [call EXCEPT !.out = Append(call.out, _repair_json(call.out[1]))]
    /\ UNCHANGED <<pc, total_marks, custom_criteria, api, parsed, grading_result,
                   uploaded_files, idx, all_results, calls, results, df, answer,
                   sessions>>

RepairNext == RepairJson \/ RepairAgain

RepairSpec == RepairInit /\ [][RepairNext]_vars

\* ------------------------------------------------------------------------
\* Vocabulary of the properties
\* ------------------------------------------------------------------------
Zero == Num(0, 1)
FallbackTag == JStr(<<"Grading performed using fallback text analysis.">>)

\* the payload is exactly one JSON object (blanks around it aside)
Structured == JsonLoads(Strip(api.text))

TextOrAbsent(v) == v.t \in {"str", "null"}
ListOrAbsent(v) == v.t \in {"arr", "null"}

\* the narrative fields have the types the requested format gives them
Conforms(o) ==
    /\ TextOrAbsent(Get(o, <<"overall_feedback">>, JNull))
    /\ ListOrAbsent(Get(o, <<"strengths">>, JNull))
    /\ ListOrAbsent(Get(o, <<"areas_for_improvement">>, JNull))
    /\ TextOrAbsent(Get(o, <<"grade_justification">>, JNull))

\* a numeric total_score is reported by the object o
ReportsScore(o) == HasKey(o, <<"total_score">>) /\ Get(o, <<"total_score">>, JNull).t = "num"

\* the normalizer was handed a well-formed object that reports a score
WellFormedGraded ==
    /\ pc = "graded"
    /\ parsed.called
    /\ Structured.ok
    /\ Structured.val.t = "obj"
    /\ ReportsScore(Structured.val.o)
    /\ Conforms(Structured.val.o)

ReportedScore == Get(Structured.val.o, <<"total_score">>, Zero)
ReportedPercentage == Get(Structured.val.o, <<"percentage">>, Zero)

\* S / T * 100
PercentOf(score, total) == NumMul(NumDiv(score, Num(total, 1)), Num(100, 1))

\* ------------------------------------------------------------------------
\* Properties of the response normalizer
\* ------------------------------------------------------------------------

\* C1: whatever the payload, total marks and criteria, _parse_grading_response
\* and grade_assignment return an ordinary record; no exception escapes.
C1_NoErrorEscapes ==
    pc = "graded" =>
        /\ ~grading_result.raised
        /\ "total_score" \in DOMAIN grading_result.val
        /\ parsed.called =>
              /\ ~parsed.out.raised
              /\ "total_score" \in DOMAIN parsed.out.val

\* C1 witness: a fallback whose rescaling divides by zero was handled
C1_Witness ==
    /\ pc = "graded"
    /\ parsed.called
    /\ ParseBody(api.text, total_marks).raised
    /\ ParseBody(api.text, total_marks).exc = "JSONDecodeError"
    /\ FallbackBody(api.text, total_marks).raised
    /\ ~parsed.out.raised

\* C2: every returned record has 0 <= total_score <= total_marks.
C2_ScoreWithinBounds ==
    pc = "graded" =>
        /\ NumLe(Zero, grading_result.val.total_score)
        /\ NumLe(grading_result.val.total_score, Num(total_marks, 1))

\* C3 as stated: a well-formed object reporting S with 0 <= S <= T yields
\* total_score = S and percentage = S/T*100, also when S = 0.
C3_PercentageAlwaysRecomputed ==
    (/\ WellFormedGraded
     /\ NumLe(Zero, ReportedScore)
     /\ NumLe(ReportedScore, Num(total_marks, 1))) =>
        /\ grading_result.val.total_score = ReportedScore
        /\ grading_result.val.percentage = PercentOf(ReportedScore, total_marks)

\* C3 amended: a well-formed object reporting S with 0 <= S <= T yields
\* total_score = S; the percentage is S/T*100 when S > 0, and the percentage
\* the payload reports (0 when it reports none) when S = 0.
C3_PercentageRecomputedWhenPositive ==
    (/\ WellFormedGraded
     /\ NumLe(Zero, ReportedScore)
     /\ NumLe(ReportedScore, Num(total_marks, 1))) =>
        /\ grading_result.val.total_score = ReportedScore
        /\ ReportedScore.n > 0 =>
              grading_result.val.percentage = PercentOf(ReportedScore, total_marks)
        /\ ReportedScore.n = 0 =>
              grading_result.val.percentage = ReportedPercentage

\* C3 witness: a positive score whose reported percentage was replaced
C3_Witness ==
    /\ WellFormedGraded
    /\ ReportedScore.n > 0
    /\ ReportedScore.n < total_marks
    /\ HasKey(Structured.val.o, <<"percentage">>)
    /\ ReportedPercentage # PercentOf(ReportedScore, total_marks)
    /\ grading_result.val.percentage = PercentOf(ReportedScore, total_marks)

\* C4: a well-formed object whose total_score exceeds total_marks yields
\* total_score = total_marks and percentage = 100.
C4_ClampedToTotal ==
    (WellFormedGraded /\ ReportedScore.n > total_marks) =>
        /\ grading_result.val.total_score = Num(total_marks, 1)
        /\ grading_result.val.percentage = Num(100, 1)

\* C4 witness: total_score 150 of 100 was lowered to 100
C4_Witness ==
    /\ WellFormedGraded
    /\ ReportedScore = Num(150, 1)
    /\ total_marks = 100
    /\ grading_result.val.total_score = Num(100, 1)

\* the payload is a well-formed, score-reporting object without its last "}"
UnclosedGraded ==
    /\ pc = "graded"
    /\ parsed.called
    /\ JsonLoads(Strip(api.text) \o <<RB>>).ok
    /\ JsonLoads(Strip(api.text) \o <<RB>>).val.t = "obj"
    /\ ReportsScore(JsonLoads(Strip(api.text) \o <<RB>>).val.o)
    /\ Conforms(JsonLoads(Strip(api.text) \o <<RB>>).val.o)

\* C5: a well-formed object that lacks only its final closing brace is
\* repaired and the record carries the total_score it encodes (lowered to
\* total_marks when above it).
C5_UnclosedObjectKeepsScore ==
    UnclosedGraded =>
        grading_result.val.total_score =
            NumMin(Get(JsonLoads(Strip(api.text) \o <<RB>>).val.o, <<"total_score">>, Zero),
                   Num(total_marks, 1))

\* what the pattern extracts from the text, on the scale of total_marks
Extracted(txt, total) ==
    LET m == ScoreSearch(txt)
    IN IF m.has2 /\ m.group2 # total
       THEN NumMul(NumDiv(Num(m.group1, 1), Num(m.group2, 1)), Num(total, 1))
       ELSE Num(m.group1, 1)

\* C6: a payload without "{" that holds a score/marks pattern yields a
\* fallback-derived record with the extracted score.
C6_NoBraceFallsBack ==
    (/\ pc = "graded"
     /\ parsed.called
     /\ Find(Strip(api.text), LB) = 0
     /\ ScoreSearch(api.text).found
     /\ ~(ScoreSearch(api.text).has2 /\ ScoreSearch(api.text).group2 = 0)) =>
        /\ grading_result.val.grade_justification = FallbackTag
        /\ grading_result.val.total_score =
              NumMin(Extracted(api.text, total_marks), Num(total_marks, 1))

\* the regex fallback was reached and its pattern matched
FallbackMatched ==
    /\ pc = "graded"
    /\ parsed.called
    /\ Find(Strip(api.text), LB) # 0
    /\ ~LoadOrRepair(JsonContent(Strip(api.text))).ok
    /\ ScoreSearch(api.text).found

\* C7: in the fallback a match N, optionally /M, yields the score N/M*total
\* when M is present and differs from total_marks, else N, lowered to
\* total_marks, in a record tagged fallback-derived; for every N and M,
\* M = 0 included.
C7_FallbackRescalesAndTags ==
    FallbackMatched =>
        /\ grading_result.val.grade_justification = FallbackTag
        /\ ~(ScoreSearch(api.text).has2 /\ ScoreSearch(api.text).group2 = 0) =>
              grading_result.val.total_score =
                  NumMin(Extracted(api.text, total_marks), Num(total_marks, 1))

\* C8: when parse and repair fail and the pattern does not match, the
\* record has total_score 0, percentage 0 and the raw text as feedback.
C8_UnparseableKeepsRawText ==
    (/\ pc = "graded"
     /\ parsed.called
     /\ Find(Strip(api.text), LB) # 0
     /\ ~LoadOrRepair(JsonContent(Strip(api.text))).ok
     /\ ~ScoreSearch(api.text).found) =>
        /\ grading_result.val.total_score = Zero
        /\ grading_result.val.percentage = Zero
        /\ grading_result.val.feedback = api.text

\* C8 witness: an unparseable payload with blanks around it was returned
C8_Witness ==
    /\ pc = "graded"
    /\ parsed.called
    /\ Find(Strip(api.text), LB) # 0
    /\ ~LoadOrRepair(JsonContent(Strip(api.text))).ok
    /\ ~ScoreSearch(api.text).found
    /\ Strip(api.text) # api.text
    /\ grading_result.val.feedback = api.text

\* the AI call yielded no text
NoText ==
    \/ api.kind # "http"
    \/ api.status # 200
    \/ ~api.has_text
    \/ api.text = <<>>

\* C9: when the AI call yields no text, grade_assignment returns a record
\* with total_score 0, percentage 0, no questions and a descriptive feedback.
C9_ServiceUnavailable ==
    (pc = "graded" /\ NoText) =>
        /\ ~grading_result.raised
        /\ ~parsed.called
        /\ grading_result.val.total_score = Zero
        /\ grading_result.val.percentage = Zero
        /\ grading_result.val.questions = JArr(<<>>)
        /\ grading_result.val.feedback =
              <<"Error during grading: ", "Failed to get response from Gemini AI">>

\* C9 witness: a non-success status with a body was answered by the record
C9_Witness ==
    /\ pc = "graded"
    /\ api.kind = "http"
    /\ api.status = 500
    /\ api.text # <<>>
    /\ grading_result.val.total_score = Zero

\* ------------------------------------------------------------------------
\* Properties of the batch
\* ------------------------------------------------------------------------
\* the outbound call made for file i, NoApi when none was made
CallOf(i) ==
    IF \E k \in 1..Len(calls) : calls[k].file = i
    THEN calls[CHOOSE k \in 1..Len(calls) : calls[k].file = i].api
    ELSE NoApi

\* UnparseableResponse: no "{" or parse and repair fail, and no pattern
Unparseable(txt) ==
    /\ \/ Find(Strip(txt), LB) = 0
       \/ ~LoadOrRepair(JsonContent(Strip(txt))).ok
    /\ ~ScoreSearch(txt).found

\* file i met an extraction failure, ServiceUnavailable or UnparseableResponse
FailedFile(i) ==
    \/ ~Grades(uploaded_files[i])
    \/ CallOf(i).kind # "http"
    \/ CallOf(i).status # 200
    \/ ~CallOf(i).has_text
    \/ CallOf(i).text = <<>>
    \/ Unparseable(CallOf(i).text)

\* C10: a failure for submission i yields a zero-score record for i and
\* never aborts the batch; the result list holds one record per submission
\* taken so far, in submission order, and all of them once the batch is done.
C10_BatchIsolation ==
    /\ pc \in {"loop", "done"} =>
          /\ Len(all_results) = idx
          /\ \A i \in 1..Len(all_results) :
                /\ all_results[i].filename = uploaded_files[i].name
                /\ FailedFile(i) =>
                      /\ all_results[i].awarded_marks = Zero
                      /\ all_results[i].percentage = Zero
    /\ pc = "done" => Len(all_results) = Len(uploaded_files)
    /\ pc # "aborted"

\* C10 witness: a batch is done whose first file failed to extract and
\* whose last file was graded with a positive score
C10_Witness ==
    /\ pc = "done"
    /\ Len(uploaded_files) >= 2
    /\ uploaded_files[1].raises
    /\ all_results[1].awarded_marks = Zero
    /\ NumLt(Zero, all_results[Len(all_results)].awarded_marks)

\* ------------------------------------------------------------------------
\* C11: one outbound call per submission, one submission at a time
\* ------------------------------------------------------------------------
\* the calls made for file i, in the order they were made
CallsOf(i) == SelectSeq(calls, LAMBDA c : c.file = i)

\* the outbound call got no text, or a text that is not the asked object
CallFailed(c) ==
    \/ ~_call_gemini_api(c.api).some
    \/ c.api.text = <<>>
    \/ Unparseable(c.api.text)

\* C11: every step of the batch sends at most one request, for the
\* submission the loop is at, and only when the records of all earlier
\* submissions are in the result list; no submission ever has two requests
\* (timeout, network error, bad status or unparseable text included).
C11_OneCallPerSubmission ==
    [][/\ Len(calls') <= Len(calls) + 1
       /\ \A k \in (Len(calls) + 1)..Len(calls') :
             /\ calls'[k].file = idx + 1
             /\ Len(all_results) = idx
       /\ \A i \in 1..Len(uploaded_files) : Len(CallsOf(i)') <= 1]_vars

\* C11 witness: the call for the first submission failed, it was not
\* repeated, and the call for the second submission was made after it
C11_Witness ==
    /\ Len(calls) = 2
    /\ calls[1].file = 1
    /\ CallFailed(calls[1])
    /\ calls[2].file = 2
    /\ Len(all_results) = 2

\* ------------------------------------------------------------------------
\* Vocabulary of the analytics properties, stated on the loaded records
\* ------------------------------------------------------------------------
\* the questions of loaded record r
QuestionsOf(r) == results[r].questions.a

\* the largest number of questions of a loaded record, 0 when none has any
LargestQuestionCount ==
    IF \A r \in 1..Len(results) : QuestionsOf(r) = <<>> THEN 0
    ELSE CHOOSE k \in 1..100 :
            /\ \E r \in 1..Len(results) : Len(QuestionsOf(r)) = k
            /\ \A r \in 1..Len(results) : Len(QuestionsOf(r)) <= k

\* record r has question n and its attempted flag is present and true
Attempted(r, n) ==
    /\ n <= Len(QuestionsOf(r))
    /\ HasKey(QuestionsOf(r)[n].o, "attempted")
    /\ Get(QuestionsOf(r)[n].o, "attempted", JBool(FALSE)) = JBool(TRUE)

AttemptedCount(n) == Cardinality({r \in 1..Len(results) : Attempted(r, n)})
SkippedCount(n) == Len(results) - AttemptedCount(n)

\* count/total*100 as Python computes it, 0 when total = 0
Share(count, total) ==
    IF total = 0 THEN PyInt(0) ELSE FMul(FDiv(PyInt(count), PyInt(total)), PyInt(100))

\* a query returned since the last load
Answered(query) == answer.query = query

\* ------------------------------------------------------------------------
\* C12: max_questions and the absent slots of shorter records
\* ------------------------------------------------------------------------
\* C12: after a load, get_max_questions is the largest number of questions
\* of a loaded record (0 when no record has questions), and the row of a
\* record with k questions has absent values in its attempted, score and
\* percentage slots k+1..max_questions (and present ones in 1..k).
C12_MaxQuestionsAndAbsentSlots ==
    df.t = "df" =>
        /\ get_max_questions(df) = LargestQuestionCount
        /\ Answered("get_max_questions") => answer.out = LargestQuestionCount
        /\ Len(df.rows) = Len(results)
        /\ \A r \in 1..Len(results) :
              \A i \in 1..LargestQuestionCount :
                 \A field \in {"attempted", "score", "percentage"} :
                    /\ HasColumn(df, Col(i, field))
                    /\ NotNa(Cell(df, df.rows[r], Col(i, field))) <=> i <= Len(QuestionsOf(r))

\* C12 witness: get_max_questions returned 3 on a dataset that has a
\* record with one question, whose slot 2 is absent
C12_Witness ==
    /\ Answered("get_max_questions")
    /\ answer.out = 3
    /\ \E r \in 1..Len(results) :
          /\ Len(QuestionsOf(r)) = 1
          /\ ~NotNa(Cell(df, df.rows[r], Col(2, "score")))

\* ------------------------------------------------------------------------
\* C13: analyze_question_attempts
\* ------------------------------------------------------------------------
\* C13: analyze_question_attempts(n) returns the number of loaded records
\* as total_students, the number of records whose question n is present
\* with attempted = true as attempted_count, and
\* attempted_count/total_students*100 (0 when there is no record) as
\* percentage.
C13_AttemptCounts ==
    Answered("analyze_question_attempts") =>
        /\ answer.out.total_students = Len(results)
        /\ answer.out.attempted_count = AttemptedCount(answer.n)
        /\ answer.out.percentage = Share(AttemptedCount(answer.n), Len(results))

\* C13 witness: question 2 was analysed on a dataset where one record
\* attempted it, one lacks it and one has it without an attempted flag
C13_Witness ==
    /\ Answered("analyze_question_attempts")
    /\ answer.n = 2
    /\ answer.out.attempted_count = 1
    /\ answer.out.total_students = 3
    /\ \E r \in 1..Len(results) : Len(QuestionsOf(r)) < 2
    /\ \E r \in 1..Len(results) :
          Len(QuestionsOf(r)) >= 2 /\ ~HasKey(QuestionsOf(r)[2].o, "attempted")

\* ------------------------------------------------------------------------
\* C14: most attempted and most skipped question
\* ------------------------------------------------------------------------
\* the smallest index in 1..LargestQuestionCount whose count is the maximum
FirstIndexOfMaximum(CountOf(_)) ==
    CHOOSE i \in 1..LargestQuestionCount :
        /\ \A j \in 1..LargestQuestionCount : CountOf(j) <= CountOf(i)
        /\ \A j \in 1..(i - 1) : CountOf(j) < CountOf(i)

\* C14: when the dataset has questions, get_most_attempted_question returns
\* the index in 1..max_questions with the largest attempted count and
\* get_most_skipped_question the index with the largest skipped count, the
\* smallest such index when several share the maximum.
C14_FirstMaximumWins ==
    LargestQuestionCount >= 1 =>
        /\ Answered("get_most_attempted_question") =>
              /\ answer.out.question_number = FirstIndexOfMaximum(AttemptedCount)
              /\ answer.out.attempts = AttemptedCount(answer.out.question_number)
        /\ Answered("get_most_skipped_question") =>
              /\ answer.out.question_number = FirstIndexOfMaximum(SkippedCount)
              /\ answer.out.skipped_count = SkippedCount(answer.out.question_number)

\* C14 witness: questions 2 and 3 share the largest attempted count, above
\* question 1, and question 2 was returned
C14_Witness ==
    /\ Answered("get_most_attempted_question")
    /\ LargestQuestionCount = 3
    /\ AttemptedCount(2) = AttemptedCount(3)
    /\ AttemptedCount(1) < AttemptedCount(2)
    /\ answer.out.question_number = 2

\* ------------------------------------------------------------------------
\* C15: grade distribution
\* ------------------------------------------------------------------------
\* the percentages of the loaded records, in order
Percentages == [r \in 1..Len(results) |-> results[r].percentage]

\* the number of records the buckets of a grade distribution count
RECURSIVE BucketTotal(_, _)
BucketTotal(grades, labels) ==
    IF labels = {} THEN 0
    ELSE LET g == CHOOSE g \in labels : TRUE
         IN grades[g] + BucketTotal(grades, labels \ {g})

\* C15: get_grade_distribution counts every loaded record in exactly one
\* of the buckets A, B, C, D, F, so the counts add up to the number of
\* records (non-integer percentages included); for the percentages
\* [90, 70, 50] it gives A:1, B:0, C:1, D:0, F:1, mean 70 and median 70.
C15_BucketsPartitionRecords ==
    (Answered("get_grade_distribution") /\ Len(results) > 0) =>
        /\ BucketTotal(answer.out.grades, GradeLabels) = Len(results)
        /\ Percentages = <<PyInt(90), PyInt(70), PyInt(50)>> =>
              /\ answer.out.grades["A (90-100%)"] = 1
              /\ answer.out.grades["B (80-89%)"] = 0
              /\ answer.out.grades["C (70-79%)"] = 1
              /\ answer.out.grades["D (60-69%)"] = 0
              /\ answer.out.grades["F (0-59%)"] = 1
              /\ answer.out.average = PyInt(70)
              /\ answer.out.median = PyInt(70)

\* ------------------------------------------------------------------------
\* C16, C17: consistent and inconsistent performers
\* ------------------------------------------------------------------------
\* the question percentages record r has: score/max_score*100 of each of
\* its questions, 0 for a question without a positive max_score
PresentPercentages(r) ==
    [i \in 1..Len(QuestionsOf(r)) |-> QuestionPercentage(QuestionsOf(r)[i])]

\* the records an answer lists, in the answer's order
ListedRecords == [i \in 1..Len(answer.out) |-> answer.out[i].filename]

\* the answer lists exactly the records of the set, each once
ListsExactly(records) ==
    /\ Len(answer.out) = Cardinality(records)
    /\ {results[r].filename : r \in records} = {ListedRecords[i] : i \in 1..Len(answer.out)}

\* a population deviation is at most half the range (a sample deviation of
\* two values is above it); 1/32 allows for the rounding of the floats
WithinHalfRange(std_dev, xs) ==
    NumLe(NumMul(PyInt(2), std_dev),
          NumMul(Num(33, 32), NumSub(PyMax(xs), PyMin(xs))))

ConsistentRecord(r) ==
    /\ Len(PresentPercentages(r)) >= 2
    /\ NumLt(np_std(PresentPercentages(r)), PyInt(15))
    /\ NumLt(PyInt(50), np_mean(PresentPercentages(r)))

\* C16: get_consistent_performers lists exactly the loaded records with at
\* least 2 question percentages whose population standard deviation is
\* below 15 and whose mean is above 50, in ascending order of the deviation.
C16_ConsistentPerformers ==
    Answered("get_consistent_performers") =>
        /\ ListsExactly({r \in 1..Len(results) : ConsistentRecord(r)})
        /\ \A i \in 1..Len(answer.out) :
              /\ answer.out[i].question_scores = PresentPercentages(answer.out[i].filename)
              /\ answer.out[i].std_deviation = np_std(answer.out[i].question_scores)
              /\ WithinHalfRange(answer.out[i].std_deviation, answer.out[i].question_scores)
        /\ \A i \in 1..(Len(answer.out) - 1) :
              NumLe(answer.out[i].std_deviation, answer.out[i + 1].std_deviation)

\* C16 witness: a record with the question scores 60, 62, 58 of 100 is
\* listed first, before a record that comes earlier in the dataset and
\* deviates more
C16_Witness ==
    /\ Answered("get_consistent_performers")
    /\ Len(answer.out) >= 2
    /\ Len(answer.out[1].question_scores) = 3
    /\ answer.out[1].question_scores[2] = QuestionPercentage(Question("yes", 62, 100))
    /\ NumLt(PyInt(1), answer.out[1].std_deviation)
    /\ NumLt(answer.out[1].std_deviation, PyInt(2))
    /\ NumLt(PyInt(50), answer.out[1].average_score)
    /\ answer.out[2].filename < answer.out[1].filename
    /\ NumLt(answer.out[1].std_deviation, answer.out[2].std_deviation)

InconsistentRecord(r) ==
    /\ Len(PresentPercentages(r)) >= 2
    /\ \/ NumLt(PyInt(25), np_std(PresentPercentages(r)))
       \/ NumLt(PyInt(40), FSub(PyMax(PresentPercentages(r)), PyMin(PresentPercentages(r))))

\* C17: get_inconsistent_performers lists exactly the loaded records with
\* at least 2 question percentages whose population standard deviation is
\* above 25 or whose range (max - min) is above 40, in descending order of
\* the deviation.
C17_InconsistentPerformers ==
    Answered("get_inconsistent_performers") =>
        /\ ListsExactly({r \in 1..Len(results) : InconsistentRecord(r)})
        /\ \A i \in 1..Len(answer.out) :
              /\ answer.out[i].question_scores = PresentPercentages(answer.out[i].filename)
              /\ answer.out[i].std_deviation = np_std(answer.out[i].question_scores)
              /\ WithinHalfRange(answer.out[i].std_deviation, answer.out[i].question_scores)
        /\ \A i \in 1..(Len(answer.out) - 1) :
              NumLe(answer.out[i + 1].std_deviation, answer.out[i].std_deviation)

\* C17 witness: a record with the question scores 10 and 95 of 100 is
\* listed, after a record that comes later in the dataset and deviates more
C17_Witness ==
    /\ Answered("get_inconsistent_performers")
    /\ Len(answer.out) >= 2
    /\ \E i \in 2..Len(answer.out) :
          /\ answer.out[i].question_scores =
                 <<QuestionPercentage(Question("yes", 10, 100)),
                   QuestionPercentage(Question("yes", 95, 100))>>
          /\ answer.out[i].score_range = PyInt(85)
          /\ answer.out[i].filename < answer.out[1].filename
          /\ NumLt(answer.out[i].std_deviation, answer.out[1].std_deviation)

\* ------------------------------------------------------------------------
\* C18: share of records above the class average
\* ------------------------------------------------------------------------
\* the loaded records whose percentage is above x
Above(x) == {r \in 1..Len(results) : NumLt(x, results[r].percentage)}

\* C18: get_above_average_percentage returns the mean of the record
\* percentages as class_average, the number of records as total, the
\* number of records strictly above class_average as count, so that count
\* is 0 when all percentages are equal and count < total whenever
\* total > 0, and count/total*100 as percentage.
C18_AboveAverage ==
    (Answered("get_above_average_percentage") /\ Len(results) > 0) =>
        /\ answer.out.class_average = np_mean(Percentages)
        /\ answer.out.total = Len(results)
        /\ answer.out.count = Cardinality(Above(answer.out.class_average))
        /\ (\A r \in 1..Len(results) : results[r].percentage = results[1].percentage) =>
              answer.out.count = 0
        /\ answer.out.count < answer.out.total
        /\ answer.out.percentage = Share(answer.out.count, answer.out.total)

\* ------------------------------------------------------------------------
\* C19: the empty dataset
\* ------------------------------------------------------------------------
\* the value each query returns by default
ZeroAnswer(query) ==
    CASE query = "get_max_questions" -> 0
      [] query = "analyze_question_attempts" ->
            [attempted_count |-> 0, total_students |-> 0, percentage |-> PyInt(0)]
      [] query = "get_most_attempted_question" ->
            [question_number |-> 0, attempts |-> 0, percentage |-> PyInt(0)]
      [] query = "get_average_questions_attempted" -> PyInt(0)
      [] query = "get_most_skipped_question" ->
            [question_number |-> 0, skipped_count |-> 0, percentage |-> PyInt(0)]
      [] query = "get_grade_distribution" ->
            [grades |-> <<>>, average |-> PyInt(0), median |-> PyInt(0), std_dev |-> PyInt(0)]
      [] query = "get_consistent_performers" -> <<>>
      [] query = "get_inconsistent_performers" -> <<>>
      [] query = "get_above_average_percentage" ->
            [percentage |-> PyInt(0), count |-> 0, total |-> 0, class_average |-> PyInt(0)]

\* C19: with no load at all or after load_results([]), get_max_questions
\* is 0 and every query returns its zero-valued or empty default; none
\* raises.
C19_EmptyDataset ==
    results = <<>> =>
        /\ get_max_questions(df) = 0
        /\ ~Answered("none") => answer.out = ZeroAnswer(answer.query)

\* C19 witness: the grade distribution was asked after load_results([])
C19_Witness ==
    /\ df = EmptyDataFrame
    /\ results = <<>>
    /\ Answered("get_grade_distribution")
    /\ answer.out.grades = <<>>

\* ------------------------------------------------------------------------
\* C20: the queries change nothing
\* ------------------------------------------------------------------------
\* C20: a step in which a query returns leaves the dataset, the service's
\* record list and the caller's list as they were, and a query asked
\* twice in a row returns the same value.
C20_QueriesArePure ==
    [][~Answered("none")' =>
          /\ UNCHANGED <<df, results, all_results>>
          /\ (answer'.query = answer.query /\ answer'.n = answer.n) =>
                answer'.out = answer.out]_vars

\* C20 witness: the consistent performers were listed from a loaded
\* dataset that still is the frame of the caller's unchanged list
C20_Witness ==
    /\ Answered("get_consistent_performers")
    /\ Len(answer.out) >= 2
    /\ results = all_results
    /\ df = _create_dataframe(all_results)

\* ------------------------------------------------------------------------
\* C21: reloading the shared dataset
\* ------------------------------------------------------------------------
\* the stored record list and the table come from one load
OneLoad == ~CreateRaises(results) /\ df = _create_dataframe(results)

\* the answer session s holds is the query's answer on its own records
OwnAnswer(s) ==
    /\ ~CreateRaises(sessions[s].all_results)
    /\ sessions[s].answer.out =
           AnswerTo(_create_dataframe(sessions[s].all_results),
                    sessions[s].answer.query, sessions[s].answer.n)

\* C21: a session that has loaded its records and reads the shared
\* AnalyticsService finds the stored record list and the table of one
\* load, and every answer it gets is computed from its own records.
C21_ReloadIsAtomic ==
    \A s \in DOMAIN sessions :
        sessions[s].pc = "loaded" =>
            /\ OneLoad
            /\ sessions[s].answer.query # "none" => OwnAnswer(s)

\* ------------------------------------------------------------------------
\* C22: the combined feedback
\* ------------------------------------------------------------------------
NarrativeFields ==
    <<"overall_feedback", "strengths", "areas_for_improvement", "grade_justification">>

ListFields == {"strengths", "areas_for_improvement"}

LabeledFields == ListFields \cup {"grade_justification"}

FieldValue(o, f) == Get(o, <<f>>, Absent)

AbsentOrEmpty(v) ==
    \/ v.t \in {"absent", "null"}
    \/ v.t = "str" /\ v.s = <<>>
    \/ v.t = "arr" /\ v.a = <<>>

\* the fields hold what the prompt asks for: texts, and lists of texts
WellTyped(o) ==
    \A i \in 1..4 :
        \/ AbsentOrEmpty(FieldValue(o, NarrativeFields[i]))
        \/ IF NarrativeFields[i] \in ListFields
           THEN /\ FieldValue(o, NarrativeFields[i]).t = "arr"
                /\ \A k \in 1..Len(FieldValue(o, NarrativeFields[i]).a) :
                      FieldValue(o, NarrativeFields[i]).a[k].t = "str"
           ELSE FieldValue(o, NarrativeFields[i]).t = "str"

KeptFields(o) == SelectSeq(NarrativeFields, LAMBDA f : ~AbsentOrEmpty(FieldValue(o, f)))

\* one bullet line per item / the paragraph
SectionBody(o, f) ==
    IF f \in ListFields
    THEN JoinSeqs([k \in 1..Len(FieldValue(o, f).a) |-> <<BULLET>> \o FieldValue(o, f).a[k].s],
                  <<"\n">>)
    ELSE FieldValue(o, f).s

Section(o, f, labels) ==
    IF f = "overall_feedback" THEN SectionBody(o, f) ELSE <<labels[f]>> \o SectionBody(o, f)

\* the kept sections in order, a blank line between two of them
SectionsJoined(o, kept, labels) ==
    JoinSeqs([i \in 1..Len(kept) |-> Section(o, kept[i], labels)], <<"\n\n">>)

\* C22: the feedback is the kept sections (overall feedback, labeled
\* strengths bullets, labeled improvement bullets, labeled justification)
\* in that order, a section being kept when its field is present and not
\* empty, joined by one blank line; with no section kept it is empty.
C22_CombinedFeedback ==
    (call.fn = "_combine_feedback" /\ Len(call.out) = 1 /\ WellTyped(call.arg)) =>
        /\ ~call.out[1].raised
        /\ \E labels \in [LabeledFields -> {call.out[1].val[i] : i \in 1..Len(call.out[1].val)}
                                              \cup {"none"}] :
              /\ \A f, g \in LabeledFields :
                    (~AbsentOrEmpty(FieldValue(call.arg, f))
                       /\ ~AbsentOrEmpty(FieldValue(call.arg, g))
                       /\ labels[f] = labels[g]) => f = g
              /\ call.out[1].val = SectionsJoined(call.arg, KeptFields(call.arg), labels)
        /\ KeptFields(call.arg) = <<>> => call.out[1].val = <<>>

\* C22 witness: all four sections were kept, the strengths with two bullets
C22_Witness ==
    /\ call.fn = "_combine_feedback"
    /\ Len(call.out) = 1
    /\ WellTyped(call.arg)
    /\ Len(KeptFields(call.arg)) = 4
    /\ Len(FieldValue(call.arg, "strengths").a) = 2
    /\ Len(SelectSeq(call.out[1].val, LAMBDA c : c = "\n\n")) = 3

\* ------------------------------------------------------------------------
\* C23, C24: the repair of truncated JSON
\* ------------------------------------------------------------------------
\* the stack of open braces and brackets after the first k symbols of s: an
\* opener is pushed, a closer that matches the top pops it, any other
\* symbol leaves the stack as it is
StackAfter[s \in Seq(RepairAlphabet), k \in Nat] ==
    IF k = 0 THEN <<>>
    ELSE IF s[k] \in {LB, LK} THEN Append(StackAfter[s, k - 1], s[k])
    ELSE IF /\ s[k] \in {RB, RK}
            /\ StackAfter[s, k - 1] # <<>>
            /\ StackAfter[s, k - 1][Len(StackAfter[s, k - 1])] = (IF s[k] = RB THEN LB ELSE LK)
    THEN SubSeq(StackAfter[s, k - 1], 1, Len(StackAfter[s, k - 1]) - 1)
    ELSE StackAfter[s, k - 1]

OpenAtEnd(s) == StackAfter[s, Len(s)]

ClosingSymbol(opener) == IF opener = LB THEN RB ELSE RK

\* the closing symbols of the stack, the last opened first
LastOpenedFirstClosed(stack) ==
    [i \in 1..Len(stack) |-> ClosingSymbol(stack[Len(stack) + 1 - i])]

\* the stripped text, with one quote appended when its quotes are odd
QuotesBalanced(s) == IF Count(Strip(s), QT) % 2 = 1 THEN Strip(s) \o <<QT>> ELSE Strip(s)

\* C23: the output is the stripped text, one closing quote iff its
\* quotation marks are odd in number, then the closing symbol of every
\* opener the stack scan leaves open, last opened first; a scan of the
\* output ends with an empty stack.
C23_RepairBalances ==
    (call.fn = "_repair_json" /\ Len(call.out) >= 1) =>
        /\ call.out[1] = QuotesBalanced(call.arg)
                            \o LastOpenedFirstClosed(OpenAtEnd(QuotesBalanced(call.arg)))
        /\ OpenAtEnd(call.out[1]) = <<>>

\* C23 witness: a text with an unclosed quote, an ignored closer and two
\* open symbols was repaired
C23_Witness ==
    /\ call.fn = "_repair_json"
    /\ Len(call.out) >= 1
    /\ Count(Strip(call.arg), QT) = 1
    /\ Len(OpenAtEnd(call.arg)) = 2
    /\ \E k \in 1..Len(call.arg) :
          call.arg[k] \in {RB, RK} /\ StackAfter[call.arg, k] = StackAfter[call.arg, k - 1]
    /\ Len(call.out[1]) = Len(Strip(call.arg)) + 3

\* C24: the output starts with the stripped input, and repairing the
\* output returns it unchanged.
C24_RepairAppendsAndIsIdempotent ==
    /\ (call.fn = "_repair_json" /\ Len(call.out) >= 1) =>
          /\ Len(call.out[1]) >= Len(Strip(call.arg))
          /\ SubSeq(call.out[1], 1, Len(Strip(call.arg))) = Strip(call.arg)
    /\ (call.fn = "_repair_json" /\ Len(call.out) = 2) => call.out[2] = call.out[1]

\* C24 witness: a text with blanks around it got symbols appended and was
\* repaired a second time
C24_Witness ==
    /\ call.fn = "_repair_json"
    /\ Len(call.out) = 2
    /\ Strip(call.arg) # call.arg
    /\ Len(call.out[1]) > Len(Strip(call.arg))
    /\ Strip(call.arg) # <<>>

\* ------------------------------------------------------------------------
\* C25: attempted and skipped counts
\* ------------------------------------------------------------------------
\* the records that did not attempt question n, those without a slot n
\* among them
NotAttempted(n) == {r \in 1..Len(results) : ~Attempted(r, n)}

\* C25: on a non-empty dataset, for every n in 1..max_questions the
\* attempted count of analyze_question_attempts(n) and the skipped count
\* get_most_skipped_question uses for n add up to the number of records; a
\* record without slot n counts as having skipped n.
C25_AttemptedPlusSkipped ==
    (Answered("get_most_skipped_question") /\ Len(results) > 0) =>
        /\ \A n \in 1..get_max_questions(df) :
              /\ analyze_question_attempts(df, n).attempted_count
                    + SkipData(df, get_max_questions(df))[n].skipped_count = Len(results)
              /\ SkipData(df, get_max_questions(df))[n].skipped_count
                    = Cardinality(NotAttempted(n))
        /\ get_max_questions(df) >= 1 =>
              answer.out.skipped_count + AttemptedCount(answer.out.question_number)
                  = Len(results)

\* C25 witness: the most skipped question is one that a record has no slot
\* for and another record attempted
C25_Witness ==
    /\ Answered("get_most_skipped_question")
    /\ Len(results) >= 2
    /\ answer.out.question_number >= 1
    /\ \E r \in 1..Len(results) : Len(QuestionsOf(r)) < answer.out.question_number
    /\ AttemptedCount(answer.out.question_number) >= 1

\* ------------------------------------------------------------------------
\* C26: consistent and inconsistent performers
\* ------------------------------------------------------------------------
\* C26: no record is listed both by get_consistent_performers and by
\* get_inconsistent_performers.
C26_ClassificationsExclusive ==
    Answered("get_consistent_performers") =>
        \A i \in 1..Len(answer.out) :
            \A j \in 1..Len(get_inconsistent_performers(df)) :
                get_inconsistent_performers(df)[j].filename # answer.out[i].filename

\* ------------------------------------------------------------------------
\* Properties of the records process_single_file returns
\* ------------------------------------------------------------------------
\* Python's == on floats: nan equals nothing, itself included
PyEq(x, y) == x.d # 0 /\ y.d # 0 /\ x = y

\* awarded_marks <= total_marks and percentage == awarded_marks/total_marks*100
RecordConsistent(r) ==
    /\ NumLe(r.awarded_marks, Num(r.total_marks, 1))
    /\ PyEq(r.percentage, PercentOf(r.awarded_marks, r.total_marks))

\* C27: every record process_single_file returns, on every path (no
\* extractable text, graded, grading failure, exception), has
\* awarded_marks <= total_marks and percentage = awarded_marks/total_marks*100,
\* whatever percentage the payload or the normalizer reported.
C27_RecordsConsistent ==
    \A i \in 1..Len(all_results) : RecordConsistent(all_results[i])

====
